---- MODULE Spec2Model ----
(***************************************************************************)
(* Editing session engine of maplibre-gl-geo-editor: the undo/redo         *)
(* HistoryManager, the Create/Delete/Edit/Composite commands, the editor's *)
(* recording hooks and composite result handlers, and the host feature     *)
(* store (Geoman) they act on.                                             *)
(*                                                                         *)
(* Geometries are abstract values 1..NumGeoms; feature ids are naturals.   *)
(* A Feature is [id, geom, lid]: lid is a history variable naming the      *)
(* logical feature a GeoJSON snapshot descends from, so that store content *)
(* can be compared across re-imports that change storage ids.              *)
(***************************************************************************)
EXTENDS Integers, Sequences, FiniteSets, TLC

\* ---- bounds ------------------------------------------------------------
MaxFeatures == 3
MaxId == 6
NumGeoms == 2
MaxCmds == 3
maxSize == 2
MaxSelected == 3
MaxParts == 3
MaxPoints == 3
MaxShapes == 2
MaxOperands == 2
MaxDistance == 11

Geoms == 1..NumGeoms

VARIABLES
  store,            \* host feature store: sequence (iteration order) of entries
  nextId,           \* next unused id (store ids and generateFeatureId)
  policy,           \* how the store assigns ids on importGeoJsonFeature
  updateMode,       \* what the store's entries offer for direct geometry update
  historyEnabled,   \* options.enableHistory !== false
  undoStack, redoStack, isExecuting,      \* HistoryManager fields
  isPerformingCompositeOperation,         \* GeoEditor flag
  pendingEditFeature,                     \* GeoEditor field
  editing,          \* sid of the entry under a store edit gesture, 0 if none
  nextSerial,       \* history variable: serial of the next command object
  lastNotified,     \* last (canUndo, canRedo) handed to onHistoryChange
  obs,              \* history variable: what the last handler did
  phase,            \* history variable: where the run stands in record* undo* redo*
  state,            \* GeoEditor.state: active modes and the selection list
  isSelectMode, pendingOperation,         \* GeoEditor fields
  isScaling, scaleTargetFeature, scaleTargetGeomanData, scaleStartFeature,
  isMultiDragging, multiDragOriginalFeatures, multiDragGeomanData,
  scaleFeature, lassoFeature, splitFeature, freehandFeature,  \* the gesture handlers
  map,              \* the map's interaction hooks: which of them are enabled
  scaleDragPanEnabled, multiDragPanEnabled,  \* GeoEditor's saved drag-pan states
  notified,         \* history variable: selections handed to onSelectionChange
  modeNotified,     \* history variable: modes handed to onModeChange
  call,             \* history variable: the last call of a geometry operation,
                    \* its operands and what it handed back
  seen,             \* history variable: the store as the selection observer of a
                    \* result handler finds it
  gesture           \* history variable: store and history when the gesture began;
                    \* cancelled: disableAllModes() has just ended a gesture in flight

modeVars == <<state, isSelectMode, pendingOperation, isScaling, scaleTargetFeature,
              scaleTargetGeomanData, scaleStartFeature, isMultiDragging,
              multiDragOriginalFeatures, multiDragGeomanData, scaleFeature, lassoFeature,
              splitFeature, freehandFeature, map, scaleDragPanEnabled,
              multiDragPanEnabled, notified, modeNotified, call,
              seen, gesture>>

vars == <<store, nextId, policy, updateMode, historyEnabled, undoStack, redoStack,
          isExecuting, isPerformingCompositeOperation, pendingEditFeature, editing,
          nextSerial, lastNotified, obs, phase, modeVars>>

\* ---- features and store entries ---------------------------------------
NoFeature == [id |-> 0, geom |-> 0, lid |-> 0]
NoEntry == [sid |-> 0, gid |-> 0, geom |-> 0, lid |-> 0]

\* GeomanFeatureData.getGeoJson(): the GeoJSON of a store entry
getGeomanFeature(e) == [id |-> e.gid, geom |-> e.geom, lid |-> e.lid]

\* extractFeatureId / getGeomanIdFromFeature: feature.id ?? __gm_id ?? id
extractFeatureId(f) == f.id

\* Store content as a bag of (logical feature, geometry)
Key(e) == <<e.lid, e.geom>>
Content(st) ==
  [k \in {Key(st[i]) : i \in DOMAIN st} |->
     Cardinality({i \in DOMAIN st : Key(st[i]) = k})]

\* A world is the store side of a handler run: the store, the id counter,
\* the events the store has raised for the global events listener and the
\* ids the commands have handed to context.onFeatureDelete.  The
\* store reports every import and delete, those made by the editor and the
\* commands included (the case the recording guards are written for).
World(st, nid) == [store |-> st, nextId |-> nid, events |-> <<>>, deleted |-> <<>>]

Emit(w, name, f) == Append(w.events, [name |-> name, feature |-> f])

\* featuresApi.importGeoJsonFeature(feature): handle or null
importGeoJsonFeature(w, f) ==
  LET e == CASE policy = "keep"   -> [sid |-> f.id, gid |-> f.id, geom |-> f.geom, lid |-> f.lid]
             [] policy = "shadow" -> [sid |-> w.nextId, gid |-> f.id, geom |-> f.geom, lid |-> f.lid]
             [] OTHER             -> [sid |-> w.nextId, gid |-> w.nextId, geom |-> f.geom, lid |-> f.lid]
      clash == \E i \in DOMAIN w.store : w.store[i].sid = e.sid
  IN IF clash
       THEN [w |-> w, fd |-> NoEntry]
       ELSE [w |-> [w EXCEPT !.store = Append(@, e),
                             !.nextId = IF policy = "keep" THEN @ ELSE @ + 1,
                             !.events = Emit(w, "gm:create", getGeomanFeature(e))],
             fd |-> e]

\* featuresApi.delete(fd): tolerant of an entry that is already gone
featuresDelete(w, sid) ==
  LET hit == {i \in DOMAIN w.store : w.store[i].sid = sid}
  IN IF hit = {} THEN w
     ELSE LET i == CHOOSE j \in hit : TRUE
          IN [w EXCEPT !.store = SelectSeq(@, LAMBDA e : e.sid # sid),
                       !.events = Emit(w, "feature_removed", getGeomanFeature(w.store[i]))]

\* the forEach match of the commands: fdId === featureId || geoJsonId === featureId
Matches(e, fid) == e.sid = fid \/ extractFeatureId(getGeomanFeature(e)) = fid

\* toDelete: the storage ids of the matching entries, in iteration order
Ids(m) == [i \in DOMAIN m |-> m[i].sid]
MatchIds(st, fid) == Ids(SelectSeq(st, LAMBDA e : Matches(e, fid)))

RECURSIVE DeleteEach(_, _)
DeleteEach(w, sids) ==
  IF sids = <<>> THEN w ELSE DeleteEach(featuresDelete(w, Head(sids)), Tail(sids))

\* ---- commands ----------------------------------------------------------
\* A command object.  serial (identity of the object), pre and post (store
\* content before the recorded change / before the last undo) are history
\* variables; the other fields are those of the classes.
NewCommand(type, serial, desc, f, old, fid, pre) ==
  [type |-> type, serial |-> serial, desc |-> desc, feature |-> f, oldFeature |-> old,
   featureId |-> fid, subs |-> <<>>, pre |-> pre, post |-> <<>>]

CreateFeatureCommand(f, serial, pre) ==
  NewCommand("create", serial, "Create", f, NoFeature, extractFeatureId(f), pre)

DeleteFeatureCommand(f, serial, pre) ==
  NewCommand("delete", serial, "Delete", f, NoFeature, extractFeatureId(f), pre)

EditFeatureCommand(old, new, serial, pre) ==
  NewCommand("edit", serial, "Edit", new, old,
             IF extractFeatureId(new) # 0 THEN extractFeatureId(new) ELSE extractFeatureId(old),
             pre)

CompositeCommand(commands, desc, serial, pre) ==
  [type |-> "composite", serial |-> serial, desc |-> desc, feature |-> NoFeature,
   oldFeature |-> NoFeature, featureId |-> 0, subs |-> commands, pre |-> pre, post |-> <<>>]

\* if (imported) this.featureId = String(imported.id), r being what
\* importGeoJsonFeature returned
Recapture(c, r) ==
  [w |-> r.w, cmd |-> IF r.fd # NoEntry THEN [c EXCEPT !.featureId = r.fd.sid] ELSE c]

\* CreateFeatureCommand.execute / DeleteFeatureCommand.undo: re-import and
\* re-capture the id of the returned handle
ReimportFeature(c, w) == Recapture(c, importGeoJsonFeature(w, c.feature))

\* a delete that calls onFeatureDelete whether or not an entry matched
DeleteTrackedNotifying(c, w) ==
  [w |-> IF c.featureId = 0 THEN w
         ELSE [DeleteEach(w, MatchIds(w.store, c.featureId))
                 EXCEPT !.deleted = Append(@, c.featureId)],
   cmd |-> c]

\* CreateFeatureCommand.undo / DeleteFeatureCommand.execute: delete every
\* match; onFeatureDelete is called if toDelete.length > 0
DeleteTracked(c, w) ==
  [w |-> IF c.featureId = 0 \/ MatchIds(w.store, c.featureId) = <<>> THEN w
         ELSE [DeleteEach(w, MatchIds(w.store, c.featureId))
                 EXCEPT !.deleted = Append(@, c.featureId)],
   cmd |-> c]

CreateExecute(c, w) == ReimportFeature(c, w)
CreateUndo(c, w) == DeleteTracked(c, w)
DeleteExecute(c, w) == DeleteTracked(c, w)
DeleteUndo(c, w) == ReimportFeature(c, w)

\* EditFeatureCommand.deleteAndReimport
deleteAndReimport(c, w, target) ==
  IF c.featureId = 0 THEN [w |-> w, cmd |-> c]
  ELSE Recapture(c, importGeoJsonFeature(DeleteEach(w, MatchIds(w.store, c.featureId)),
                                         target))

\* fd.updateGeometry(geometry) on every entry matching fid
updateGeometry(w, fid, geom) ==
  [w EXCEPT !.store = [i \in DOMAIN @ |-> IF Matches(@[i], fid)
                                          THEN [@[i] EXCEPT !.geom = geom]
                                          ELSE @[i]]]

\* EditFeatureCommand.updateFeatureGeometry.  updateMode "direct": the entry
\* has updateGeometry/updateGeoJsonGeometry; "none": it has neither, and the
\* loop body does nothing; "throws": the update raises, the catch falls back
\* to deleteAndReimport.
updateFeatureGeometry(c, w, target) ==
  IF c.featureId = 0 \/ MatchIds(w.store, c.featureId) = <<>> THEN [w |-> w, cmd |-> c]
  ELSE CASE updateMode = "direct" ->
              [w |-> updateGeometry(w, c.featureId, target.geom), cmd |-> c]
         [] updateMode = "none" -> [w |-> w, cmd |-> c]
         [] OTHER -> deleteAndReimport(c, w, target)

EditExecute(c, w) == updateFeatureGeometry(c, w, c.feature)
EditUndo(c, w) == updateFeatureGeometry(c, w, c.oldFeature)

\* execute()/undo() of a leaf command
LeafRun(c, w, op) ==
  CASE c.type = "create" /\ op = "execute" -> CreateExecute(c, w)
    [] c.type = "create" /\ op = "undo"    -> CreateUndo(c, w)
    [] c.type = "delete" /\ op = "execute" -> DeleteExecute(c, w)
    [] c.type = "delete" /\ op = "undo"    -> DeleteUndo(c, w)
    [] c.type = "edit" /\ op = "execute"   -> EditExecute(c, w)
    [] OTHER                               -> EditUndo(c, w)

\* one pass of the loop of CompositeCommand.execute / undo: r is what the
\* k-th sub-command returned
Visited(acc, k, r) ==
  [w |-> r.w, subs |-> [acc.subs EXCEPT ![k] = r.cmd], visited |-> Append(acc.visited, k)]

\* the loop of CompositeCommand.execute / undo over the indices in `order`
RECURSIVE RunSubs(_, _, _)
RunSubs(acc, order, op) ==
  IF order = <<>> THEN acc
  ELSE RunSubs(Visited(acc, Head(order), LeafRun(acc.subs[Head(order)], acc.w, op)),
               Tail(order), op)

ForwardOrder(n) == [i \in 1..n |-> i]
ReverseOrder(n) == [i \in 1..n |-> n + 1 - i]

CompositeExecute(c, w) ==
  RunSubs([w |-> w, subs |-> c.subs, visited |-> <<>>], ForwardOrder(Len(c.subs)), "execute")

\* CompositeCommand.undo that walks the list forwards
CompositeUndoForward(c, w) ==
  RunSubs([w |-> w, subs |-> c.subs, visited |-> <<>>], ForwardOrder(Len(c.subs)), "undo")

CompositeUndo(c, w) ==
  RunSubs([w |-> w, subs |-> c.subs, visited |-> <<>>], ReverseOrder(Len(c.subs)), "undo")

\* what HistoryManager gets back from a composite command (r: its loop) and
\* from a leaf command (r: its method).  calls is the trace of method
\* invocations: <<serial, 0, op>> for the command itself, <<serial, k, op>>
\* for its k-th sub-command.
CompositeRan(c, op, r) ==
  [w |-> r.w, cmd |-> [c EXCEPT !.subs = r.subs],
   calls |-> <<<<c.serial, 0, op>>>> \o
             [i \in DOMAIN r.visited |-> <<c.serial, r.visited[i], op>>]]

LeafRan(c, op, r) == [w |-> r.w, cmd |-> r.cmd, calls |-> <<<<c.serial, 0, op>>>>]

\* command.execute() / command.undo() as HistoryManager calls it
CommandRun(c, w, op) ==
  IF c.type = "composite"
    THEN CompositeRan(c, op, IF op = "execute" THEN CompositeExecute(c, w)
                             ELSE CompositeUndo(c, w))
    ELSE LeafRan(c, op, LeafRun(c, w, op))

\* ---- HistoryManager ----------------------------------------------------
\* A history record h carries the fields undoStack, redoStack, isExecuting
\* and history variables of the running handler: nextSerial, snap (store
\* content when the handler began), notes (pairs handed to onHistoryChange),
\* dropped (record requests refused), discarded (redo entries thrown away),
\* evicted (undo entries shifted out) and calls (command methods invoked).
Front(s) == SubSeq(s, 1, Len(s) - 1)
Last(s) == s[Len(s)]

canUndo(h) == Len(h.undoStack) > 0
canRedo(h) == Len(h.redoStack) > 0
isExecutingCommand(h) == h.isExecuting

notifyChange(h) == [h EXCEPT !.notes = Append(@, <<canUndo(h), canRedo(h)>>)]

\* record() without the size loop
KeepAll(s) == s

\* while (this.undoStack.length > this.maxSize) this.undoStack.shift()
RECURSIVE EnforceMaxSize(_)
EnforceMaxSize(s) == IF Len(s) > maxSize THEN EnforceMaxSize(Tail(s)) ELSE s

\* record() that leaves the redo stack alone
RecordedKeepingRedo(h, pushed) ==
  [h EXCEPT !.undoStack = pushed, !.evicted = @ + (Len(h.undoStack) + 1 - Len(pushed))]

\* the stacks of record(): pushed being the undo stack after push and shift
Recorded(h, pushed) ==
  [h EXCEPT !.undoStack = pushed,
            !.redoStack = <<>>,
            !.discarded = @ + Len(h.redoStack),
            !.evicted = @ + (Len(h.undoStack) + 1 - Len(pushed))]

record(h, command) ==
  IF h.isExecuting THEN [h EXCEPT !.dropped = @ + 1]
  ELSE notifyChange(Recorded(h, EnforceMaxSize(Append(h.undoStack, command))))

\* clear() without the notification
clearSilently(h) == [h EXCEPT !.undoStack = <<>>, !.redoStack = <<>>]

clear(h) == notifyChange([h EXCEPT !.undoStack = <<>>, !.redoStack = <<>>])

\* ---- GeoEditor recording hooks ------------------------------------------
recordCreateOperation(h, comp, f) ==
  IF ~historyEnabled THEN h
  ELSE IF isExecutingCommand(h) \/ comp THEN [h EXCEPT !.dropped = @ + 1]
  ELSE record([h EXCEPT !.nextSerial = @ + 1], CreateFeatureCommand(f, h.nextSerial, h.snap))

recordEditOperation(h, comp, old, new) ==
  IF ~historyEnabled THEN h
  ELSE IF isExecutingCommand(h) \/ comp THEN [h EXCEPT !.dropped = @ + 1]
  ELSE record([h EXCEPT !.nextSerial = @ + 1], EditFeatureCommand(old, new, h.nextSerial, h.snap))

recordDeleteOperation(h, comp, f) ==
  IF ~historyEnabled THEN h
  ELSE IF isExecutingCommand(h) \/ comp THEN [h EXCEPT !.dropped = @ + 1]
  ELSE record([h EXCEPT !.nextSerial = @ + 1], DeleteFeatureCommand(f, h.nextSerial, h.snap))

\* the sub-commands of recordCompositeOperation: deletes first, then creates
CompositeSubs(deletedFeatures, createdFeatures) ==
  [i \in DOMAIN deletedFeatures |-> DeleteFeatureCommand(deletedFeatures[i], 0, <<>>)]
  \o [i \in DOMAIN createdFeatures |-> CreateFeatureCommand(createdFeatures[i], 0, <<>>)]

recordCompositeOperation(h, deletedFeatures, createdFeatures, desc) ==
  IF ~historyEnabled \/ isExecutingCommand(h) THEN h
  ELSE record([h EXCEPT !.nextSerial = @ + 1],
              CompositeCommand(CompositeSubs(deletedFeatures, createdFeatures), desc,
                               h.nextSerial, h.snap))

\* the create / removed branches of the global events listener, run for the
\* events the store raised (setupGeomanEvents)
RECURSIVE GlobalEventsListener(_, _, _)
GlobalEventsListener(h, comp, events) ==
  IF events = <<>> THEN h
  ELSE GlobalEventsListener(
         IF Head(events).name = "gm:create"
           THEN recordCreateOperation(h, comp, Head(events).feature)
           ELSE recordDeleteOperation(h, comp, Head(events).feature),
         comp, Tail(events))

\* undo() that never raises the executing flag
UndoneUnflagged(h, comp, r) ==
  [h |-> notifyChange(
           [GlobalEventsListener([h EXCEPT !.undoStack = Front(@), !.calls = @ \o r.calls],
                                 comp, r.w.events)
              EXCEPT !.redoStack = Append(@, [r.cmd EXCEPT !.post = h.snap])]),
   w |-> r.w, ret |-> TRUE]

\* HistoryManager.undo() from the pop on, r being what command.undo() returned;
\* the store events of the command reach the listener while the executing
\* flag is set
Undone(h, comp, r) ==
  [h |-> notifyChange(
           [GlobalEventsListener([h EXCEPT !.undoStack = Front(@), !.isExecuting = TRUE,
                                           !.calls = @ \o r.calls],
                                 comp, r.w.events)
              EXCEPT !.isExecuting = FALSE,
                     !.redoStack = Append(@, [r.cmd EXCEPT !.post = h.snap])]),
   w |-> r.w, ret |-> TRUE]

\* undo() that notifies before looking at the stack
undoNotifying(h, w, comp) ==
  IF ~canUndo(h) THEN [h |-> notifyChange(h), w |-> w, ret |-> FALSE]
  ELSE Undone(h, comp, CommandRun(Last(h.undoStack), w, "undo"))

\* HistoryManager.undo()
undo(h, w, comp) ==
  IF ~canUndo(h) THEN [h |-> h, w |-> w, ret |-> FALSE]
  ELSE Undone(h, comp, CommandRun(Last(h.undoStack), w, "undo"))

\* redo() that puts the command under the undo stack
RedoneUnder(h, comp, r) ==
  [h |-> notifyChange(
           [GlobalEventsListener([h EXCEPT !.redoStack = Front(@), !.isExecuting = TRUE,
                                           !.calls = @ \o r.calls],
                                 comp, r.w.events)
              EXCEPT !.isExecuting = FALSE,
                     !.undoStack = <<r.cmd>> \o @]),
   w |-> r.w, ret |-> TRUE]

\* HistoryManager.redo() from the pop on, r being what command.execute() returned
Redone(h, comp, r) ==
  [h |-> notifyChange(
           [GlobalEventsListener([h EXCEPT !.redoStack = Front(@), !.isExecuting = TRUE,
                                           !.calls = @ \o r.calls],
                                 comp, r.w.events)
              EXCEPT !.isExecuting = FALSE,
                     !.undoStack = Append(@, r.cmd)]),
   w |-> r.w, ret |-> TRUE]

\* HistoryManager.redo()
redo(h, w, comp) ==
  IF ~canRedo(h) THEN [h |-> h, w |-> w, ret |-> FALSE]
  ELSE Redone(h, comp, CommandRun(Last(h.redoStack), w, "execute"))

\* execute() of a create command and undo() of a delete command call the
\* store's importGeoJsonFeature outside any try block: what the store raises
\* there leaves the method
Imports(c, op) ==
  \/ c.type = "create" /\ op = "execute"
  \/ c.type = "delete" /\ op = "undo"

\* HistoryManager.undo() whose command.undo() raises: the finally block
\* clears the flag, and the exception leaves undo() before the push and the
\* notification
undoRaised(h, w) ==
  [h |-> [h EXCEPT !.undoStack = Front(@), !.isExecuting = FALSE,
                   !.calls = Append(@, <<Last(h.undoStack).serial, 0, "undo">>)],
   w |-> w, ret |-> FALSE]

\* HistoryManager.redo() whose command.execute() raises
redoRaised(h, w) ==
  [h |-> [h EXCEPT !.redoStack = Front(@), !.isExecuting = FALSE,
                   !.calls = Append(@, <<Last(h.redoStack).serial, 0, "execute">>)],
   w |-> w, ret |-> FALSE]

\* ---- GeoEditor store helpers --------------------------------------------
\* findGeomanDataForFeature: the first entry, in iteration order, whose
\* GeoJSON id is the target's or whose geometry is the target's
FirstOf(m) == IF m = <<>> THEN NoEntry ELSE Head(m)
findGeomanDataForFeature(st, f) ==
  FirstOf(SelectSeq(st, LAMBDA e :
            \/ extractFeatureId(f) # 0 /\ extractFeatureId(getGeomanFeature(e)) = extractFeatureId(f)
            \/ e.geom = f.geom))

\* deleteFeatureById: entries whose storage id or GeoJSON id is featureId
deleteFeatureById(w, featureId) ==
  DeleteEach(w, MatchIds(w.store, featureId))

\* deleteGeomanFeatureData(geomanData, fallbackId)
deleteGeomanFeatureData(w, geomanData, fallbackId) ==
  IF geomanData # NoEntry THEN featuresDelete(w, geomanData.sid)
  ELSE IF fallbackId # 0 THEN deleteFeatureById(w, fallbackId)
  ELSE w

\* deleteGeomanFeatures: per feature, in order
RECURSIVE deleteGeomanFeatures(_, _)
deleteGeomanFeatures(w, features) ==
  IF features = <<>> THEN w
  ELSE deleteGeomanFeatures(
         deleteGeomanFeatureData(w, findGeomanDataForFeature(w.store, Head(features)),
                                 extractFeatureId(Head(features))),
         Tail(features))

RECURSIVE ImportEach(_, _)
ImportEach(w, features) ==
  IF features = <<>> THEN w
  ELSE ImportEach(importGeoJsonFeature(w, Head(features)).w, Tail(features))

\* a result handler that never raises isPerformingCompositeOperation
AppliedUnflagged(h, w) ==
  [h |-> GlobalEventsListener(h, FALSE, w.events), w |-> w, ret |-> TRUE]

\* the store events of a result handler reach the listener while
\* isPerformingCompositeOperation is set
Applied(h, w) == [h |-> GlobalEventsListener(h, TRUE, w.events), w |-> w, ret |-> TRUE]

\* the common body of handleSplitResult, handleUnionResult,
\* handleDifferenceResult and applySimplifyResult: record the composite,
\* raise the flag, delete the originals, import the results, lower the flag
applyCompositeResult(h, w, deletedFeatures, createdFeatures, desc) ==
  Applied(recordCompositeOperation(h, deletedFeatures, createdFeatures, desc),
          ImportEach(deleteGeomanFeatures(w, deletedFeatures), createdFeatures))

\* ---- GeoEditor modes and selection ---------------------------------------
\* Geometries 1..NumGeoms are polygons; PointGeom is the geometry of a marker.
PointGeom == NumGeoms + 1
AllGeoms == Geoms \cup {PointGeom}

\* geometryUtils.isPolygon
isPolygon(f) == f.geom \in Geoms

\* selectionUtils.getPolygonFeatures
getPolygonFeatures(features) == SelectSeq(features, isPolygon)

NoMode == "null"

\* the mode, selection and gesture fields of the editor and of its gesture
\* handlers, as a handler finds them.  A geomanData reference is the storage
\* id of the entry, 0 for none.  attached: the handler's map listeners are
\* registered.  notified is a history variable: the selections the running
\* handler has handed to onSelectionChange.
IdleModes ==
  [state |-> [activeDrawMode |-> NoMode, activeEditMode |-> NoMode,
              selectedFeatures |-> <<>>, isDrawing |-> FALSE, isEditing |-> FALSE],
   isSelectMode |-> FALSE,
   pendingOperation |-> NoMode,
   isScaling |-> FALSE,
   scaleTargetFeature |-> NoFeature,
   scaleTargetGeomanData |-> 0,
   scaleStartFeature |-> NoFeature,
   isMultiDragging |-> FALSE,
   multiDragOriginalFeatures |-> <<>>,
   multiDragGeomanData |-> <<>>,
   scaleFeature |-> [activeFeature |-> NoFeature, originalFeature |-> NoFeature],
   lassoFeature |-> [attached |-> FALSE, isDrawing |-> FALSE, points |-> 0,
                     dragPanEnabled |-> FALSE, boxZoomEnabled |-> FALSE,
                     doubleClickZoomEnabled |-> FALSE],
   splitFeature |-> [attached |-> FALSE, isDrawing |-> FALSE, splitLinePoints |-> 0,
                     targetFeature |-> NoFeature, onCompleteCallback |-> FALSE],
   freehandFeature |-> [attached |-> FALSE, isDrawing |-> FALSE, points |-> 0,
                        dragPanEnabled |-> FALSE, boxZoomEnabled |-> FALSE,
                        doubleClickZoomEnabled |-> FALSE],
   map |-> [dragPan |-> TRUE, boxZoom |-> TRUE, doubleClickZoom |-> TRUE],
   scaleDragPanEnabled |-> FALSE,
   multiDragPanEnabled |-> FALSE,
   notified |-> <<>>,
   modeNotified |-> <<>>,
   call |-> [op |-> "none"],
   seen |-> <<>>]

\* GeoEditor.getSelectedFeatures
getSelectedFeatures(m) ==
  [i \in DOMAIN m.state.selectedFeatures |-> m.state.selectedFeatures[i].feature]

\* a SelectedFeature: id is String(geomanData?.id ?? feature.id)
SelectedFeature(f, gd) ==
  [id |-> IF gd # 0 THEN gd ELSE extractFeatureId(f), feature |-> f, geomanData |-> gd]

\* GeoEditor.selectFeatures(features, geomanDataList): the list is replaced;
\* without a geomanDataList every feature is looked up in the store
selectFeatures(m, st, features, geomanDataList) ==
  [m EXCEPT !.state.selectedFeatures =
               [i \in DOMAIN features |->
                  SelectedFeature(features[i],
                                  IF geomanDataList # <<>> THEN geomanDataList[i]
                                  ELSE findGeomanDataForFeature(st, features[i]).sid)],
            !.notified = Append(@, features)]

\* the push of addToSelection
Pushed(m, entry) ==
  [m EXCEPT !.state.selectedFeatures = Append(@, entry),
            !.notified = Append(@, Append(getSelectedFeatures(m), entry.feature))]

\* addToSelection that does not look for the id in the list
addAlways(m, entry) == Pushed(m, entry)

\* addToSelection from the exists test on, entry being the resolved one
addIfNew(m, entry) ==
  IF \E i \in DOMAIN m.state.selectedFeatures : m.state.selectedFeatures[i].id = entry.id
    THEN m
    ELSE Pushed(m, entry)

\* GeoEditor.addToSelection(feature, geomanData)
addToSelection(m, st, f, gd) ==
  addIfNew(m, SelectedFeature(f, IF gd # 0 THEN gd ELSE findGeomanDataForFeature(st, f).sid))

\* the list without the entries of id featureId
WithoutId(sel, featureId) == SelectSeq(sel, LAMBDA s : s.id # featureId)

\* GeoEditor.removeFromSelection(featureId)
removeFromSelection(m, featureId) ==
  [m EXCEPT !.state.selectedFeatures = WithoutId(@, featureId),
            !.notified = Append(@, [i \in DOMAIN WithoutId(m.state.selectedFeatures, featureId) |->
                                      WithoutId(m.state.selectedFeatures, featureId)[i].feature])]

\* GeoEditor.toggleFeatureSelection(feature, geomanData)
toggleFeatureSelection(m, st, f, gd) ==
  IF \E i \in DOMAIN m.state.selectedFeatures :
       m.state.selectedFeatures[i].id = SelectedFeature(f, gd).id
    THEN removeFromSelection(m, SelectedFeature(f, gd).id)
    ELSE addToSelection(m, st, f, gd)

\* GeoEditor.clearSelection
clearSelection(m) ==
  [m EXCEPT !.state.selectedFeatures = <<>>, !.notified = Append(@, <<>>)]

\* A saved hook state (dragPanEnabled and the like) is TRUE when the hook was
\* enabled at the save; FALSE stands for both of the values the code tests as
\* false: the hook was disabled at the save, or nothing is saved (null).

\* LassoFeature / FreehandFeature.disableMapInteractions: the feature f saves
\* the three hooks as it finds them
disableMapInteractions(f, mp) ==
  [f EXCEPT !.dragPanEnabled = mp.dragPan, !.boxZoomEnabled = mp.boxZoom,
            !.doubleClickZoomEnabled = mp.doubleClickZoom]

\* LassoFeature / FreehandFeature.restoreMapInteractions: the map after it
restoreMapInteractions(mp, f) ==
  [dragPan |-> mp.dragPan \/ f.dragPanEnabled,
   boxZoom |-> mp.boxZoom \/ f.boxZoomEnabled,
   doubleClickZoom |-> mp.doubleClickZoom \/ f.doubleClickZoomEnabled]

\* GeoEditor.restoreScaleDragPan / restoreMultiDragPan: the map after it
restoreDragPan(mp, saved) == [mp EXCEPT !.dragPan = @ \/ saved]

\* the map after the restores of disableAllModes: LassoFeature.disable,
\* FreehandFeature.disable, restoreScaleDragPan, restoreMultiDragPan
RestoredMap(m) ==
  restoreDragPan(
    restoreDragPan(
      restoreMapInteractions(restoreMapInteractions(m.map, m.lassoFeature),
                             m.freehandFeature),
      m.scaleDragPanEnabled),
    m.multiDragPanEnabled)

\* disableAllModes that leaves the multi-drag snapshot standing
disableAllModesKeepingSnapshot(m) ==
  [IdleModes EXCEPT !.state.selectedFeatures = m.state.selectedFeatures,
                    !.multiDragOriginalFeatures = m.multiDragOriginalFeatures,
                    !.multiDragGeomanData = m.multiDragGeomanData,
                    !.map = RestoredMap(m),
                    !.notified = m.notified,
                    !.modeNotified = m.modeNotified,
                    !.call = m.call,
                    !.seen = m.seen]

\* disableAllModes that leaves the pending operation standing
disableAllModesKeepingPending(m) ==
  [IdleModes EXCEPT !.state.selectedFeatures = m.state.selectedFeatures,
                    !.pendingOperation = m.pendingOperation,
                    !.map = RestoredMap(m),
                    !.notified = m.notified,
                    !.modeNotified = m.modeNotified,
                    !.call = m.call,
                    !.seen = m.seen]

\* GeoEditor.disableAllModes: every gesture handler is cancelled or disabled
\* (ScaleFeature.cancelScale, LassoFeature.disable, SplitFeature.cancelSplit,
\* FreehandFeature.disable), every mode and gesture field is reset; the
\* selection list stays
disableAllModes(m) ==
  [IdleModes EXCEPT !.state.selectedFeatures = m.state.selectedFeatures,
                    !.map = RestoredMap(m),
                    !.notified = m.notified,
                    !.modeNotified = m.modeNotified,
                    !.call = m.call,
                    !.seen = m.seen]

\* GeoEditor.enableSelectMode
enableSelectMode(m) == [disableAllModes(m) EXCEPT !.isSelectMode = TRUE]

\* GeoEditor.cancelPendingOperation
cancelPendingOperation(m) == clearSelection([m EXCEPT !.pendingOperation = NoMode])

\* ---- GeoEditor mode handlers ----------------------------------------------
\* A handler run x carries the history record x.h, the world x.w, what the
\* handler returns x.ret and the mode fields x.m.
Handler(r, m) == [h |-> r.h, w |-> r.w, ret |-> r.ret, m |-> m]

\* a return that drops the selection on its way out
RefusedClearing(x) == [x EXCEPT !.ret = FALSE, !.m = clearSelection(@)]

\* the handler returns without having done anything
Refused(x) == [x EXCEPT !.ret = FALSE]

\* what a geometry operation hands back: success, and the geometry of its
\* result feature (0: no result feature)
NoResult == [success |-> FALSE, geom |-> 0]
OperationResults == {NoResult} \cup [success : {TRUE}, geom : 0..NumGeoms]

\* a feature the geometry library returns, under a generated id
GeneratedAt(w, g) == [id |-> w.nextId, geom |-> g, lid |-> w.nextId]

\* the store after generateFeatureId was called n times
Fresh(w, n) == [w EXCEPT !.nextId = @ + n]

\* the clearSelection of a result handler: onSelectionChange([]) is called
\* while the store is st
clearSelectionOver(m, st) == [clearSelection(m) EXCEPT !.seen = Append(@, st)]

\* the store between the deleteGeomanFeatures and the imports of
\* handleSplitResult, handleUnionResult and handleDifferenceResult, where
\* their clearSelection stands
Deleted(w, originals) == deleteGeomanFeatures(w, originals).store

\* the selection and mode statements of the four result handlers:
\* clearSelection, called while the store is st, then disableAllModes
ResultApplied(r, m, st) == Handler(r, disableAllModes(clearSelectionOver(m, st)))

\* the same where clearSelection comes after the imports (executeSimplify,
\* applySimplifyResult)
ResultAppliedLast(r, m) == ResultApplied(r, m, r.w.store)

\* GeoEditor.handleUnionResult
handleUnionResult(x, originals, result) ==
  IF ~result.success \/ result.geom = 0 THEN Refused(x)
  ELSE ResultApplied(applyCompositeResult(x.h, Fresh(x.w, 1), originals,
                                          <<GeneratedAt(x.w, result.geom)>>, "Union"),
                     x.m, Deleted(x.w, originals))

\* GeoEditor.executeUnion, result being what UnionFeature.union hands back
executeUnion(x, result) ==
  IF Len(getPolygonFeatures(getSelectedFeatures(x.m))) < 2 THEN Refused(x)
  ELSE handleUnionResult(x, getPolygonFeatures(getSelectedFeatures(x.m)), result)

\* GeoEditor.handleDifferenceResult: a null result with success is the base
\* consumed
handleDifferenceResult(x, originals, result) ==
  IF ~result.success THEN Refused(x)
  ELSE ResultApplied(applyCompositeResult(x.h, Fresh(x.w, 1), originals,
                                          IF result.geom = 0 THEN <<>>
                                          ELSE <<GeneratedAt(x.w, result.geom)>>,
                                          "Difference"),
                     x.m, Deleted(x.w, originals))

\* GeoEditor.executeDifference
executeDifference(x, result) ==
  IF Len(getPolygonFeatures(getSelectedFeatures(x.m))) < 2 THEN Refused(x)
  ELSE handleDifferenceResult(
         [x EXCEPT !.m.call =
            [op |-> "difference",
             base |-> Head(getPolygonFeatures(getSelectedFeatures(x.m))),
             subtract |-> Tail(getPolygonFeatures(getSelectedFeatures(x.m)))]],
         getPolygonFeatures(getSelectedFeatures(x.m)), result)

\* GeoEditor.handleSplitResult: the parts are polygons under generated ids
handleSplitResult(x, original, np) ==
  IF np = 0 THEN Refused(x)
  ELSE ResultApplied(applyCompositeResult(
                       x.h, Fresh(x.w, np), <<original>>,
                       [k \in 1..np |-> [id |-> x.w.nextId + k - 1,
                                         geom |-> ((k - 1) % NumGeoms) + 1,
                                         lid |-> x.w.nextId + k - 1]],
                       "Split"),
                     x.m, Deleted(x.w, <<original>>))

\* getSimplifyResult(feature) is not null: the simplification to geometry
\* result.geom removes vertices of the feature
Simplifies(result, f) ==
  result.success /\ result.geom # 0 /\ result.geom # f.geom /\ isPolygon(f)

\* the forEach of executeSimplify over the results: applySimplifyResult
\* replaces each original by its simplified clone, which keeps the id
RECURSIVE SimplifyEach(_, _, _)
SimplifyEach(r, originals, result) ==
  IF originals = <<>> THEN r
  ELSE SimplifyEach(applyCompositeResult(r.h, r.w, <<Head(originals)>>,
                                         <<[Head(originals) EXCEPT !.geom = result.geom]>>,
                                         "Simplify"),
                    Tail(originals), result)

\* GeoEditor.executeSimplify on the selected features (none selected and no
\* last created feature: no target).  The selection is cleared and the modes
\* are disabled by the one result, or after the batch.
executeSimplify(x, result) ==
  IF SelectSeq(getSelectedFeatures(x.m), LAMBDA f : Simplifies(result, f)) = <<>>
    THEN Refused(x)
    ELSE ResultAppliedLast(SimplifyEach(x, SelectSeq(getSelectedFeatures(x.m),
                                                     LAMBDA f : Simplifies(result, f)),
                                        result),
                           x.m)

\* GeoEditor.enableUnionMode / enableDifferenceMode: with two polygons
\* selected the operation runs at once, otherwise it becomes pending
enableUnionMode(x, result) ==
  IF Len(getPolygonFeatures(getSelectedFeatures(x.m))) >= 2 THEN executeUnion(x, result)
  ELSE [x EXCEPT !.m.pendingOperation = "union"]

enableDifferenceMode(x, result) ==
  IF Len(getPolygonFeatures(getSelectedFeatures(x.m))) >= 2 THEN executeDifference(x, result)
  ELSE [x EXCEPT !.m.pendingOperation = "difference"]

\* the last line of executePendingOperation, x being the operation as run
Executed(x) == [x EXCEPT !.m.pendingOperation = NoMode]

\* GeoEditor.executePendingOperation
executePendingOperation(x, result) ==
  IF x.m.pendingOperation = NoMode THEN x
  ELSE Executed(IF x.m.pendingOperation = "union" THEN executeUnion(x, result)
                ELSE executeDifference(x, result))

\* GeoEditor.enableScaleMode: the first selected feature becomes the target
\* when the store has an entry for it, and its selection entry takes the
\* identity of that entry
ScaleArmed(m, f, gd) ==
  IF gd = 0 THEN m
  ELSE [m EXCEPT !.scaleTargetFeature = f,
                 !.scaleTargetGeomanData = gd,
                 !.state.selectedFeatures[1].id = gd,
                 !.state.selectedFeatures[1].geomanData = gd]

enableScaleMode(m, st) ==
  IF m.state.selectedFeatures = <<>>
    THEN [m EXCEPT !.scaleTargetFeature = NoFeature, !.scaleTargetGeomanData = 0]
    ELSE ScaleArmed([m EXCEPT !.scaleTargetFeature = NoFeature, !.scaleTargetGeomanData = 0],
                    m.state.selectedFeatures[1].feature,
                    findGeomanDataForFeature(st, m.state.selectedFeatures[1].feature).sid)

\* GeoEditor.enableSplitMode: SplitFeature.startSplit on the first selected
\* feature when it is a polygon (or a line)
enableSplitMode(m) ==
  IF m.state.selectedFeatures = <<>> \/ ~isPolygon(m.state.selectedFeatures[1].feature) THEN m
  ELSE [m EXCEPT !.splitFeature = [attached |-> TRUE, isDrawing |-> TRUE,
                                   splitLinePoints |-> 0,
                                   targetFeature |-> m.state.selectedFeatures[1].feature,
                                   onCompleteCallback |-> TRUE]]

\* GeoEditor.enableLassoMode: LassoFeature.enable
enableLassoMode(m) ==
  [m EXCEPT !.lassoFeature = [disableMapInteractions(@, m.map) EXCEPT !.attached = TRUE],
            !.map = [dragPan |-> FALSE, boxZoom |-> FALSE, doubleClickZoom |-> FALSE]]

AdvancedEditModes == {"select", "scale", "split", "union", "difference", "simplify", "lasso"}
OperationModes == {"union", "difference", "simplify"}
EditModes == AdvancedEditModes \cup {"drag", "change"}
DrawModes == {"polygon", "freehand"}

\* GeoEditor.enableAdvancedEditMode
enableAdvancedEditMode(x, mode, result) ==
  CASE mode = "select"     -> [x EXCEPT !.m = enableSelectMode(@)]
    [] mode = "scale"      -> [x EXCEPT !.m = enableScaleMode(@, x.w.store)]
    [] mode = "split"      -> [x EXCEPT !.m = enableSplitMode(@)]
    [] mode = "union"      -> enableUnionMode(x, result)
    [] mode = "difference" -> enableDifferenceMode(x, result)
    [] mode = "simplify"   -> executeSimplify(x, result)
    [] OTHER               -> [x EXCEPT !.m = enableLassoMode(@)]

\* the end of enableEditMode
EditModeSet(x, mode) ==
  [x EXCEPT !.m.state.activeEditMode = mode, !.m.state.isEditing = TRUE,
            !.m.modeNotified = Append(@, mode)]

\* GeoEditor.enableEditMode(mode): the store's own modes (drag, change) leave
\* no trace in the editor but the active mode
enableEditMode(x, mode, result) ==
  EditModeSet(IF mode \in AdvancedEditModes
                THEN enableAdvancedEditMode([x EXCEPT !.m = disableAllModes(@)], mode, result)
                ELSE [x EXCEPT !.m = disableAllModes(@)],
              mode)

\* GeoEditor.enableDrawMode(mode): freehand is the editor's own handler
enableDrawMode(m, mode) ==
  [disableAllModes(m) EXCEPT
     !.freehandFeature = IF mode = "freehand"
                           THEN [disableMapInteractions(@, RestoredMap(m)) EXCEPT
                                   !.attached = TRUE]
                           ELSE @,
     !.map = IF mode = "freehand"
               THEN [dragPan |-> FALSE, boxZoom |-> FALSE, doubleClickZoom |-> FALSE]
               ELSE @,
     !.state.activeDrawMode = mode,
     !.state.isDrawing = TRUE,
     !.modeNotified = Append(@, mode)]

\* fd.updateGeometry(geometry) on the entry a handle refers to
handleUpdateGeometry(w, gd, geom) ==
  [w EXCEPT !.store = [i \in DOMAIN @ |-> IF @[i].sid = gd /\ updateMode = "direct"
                                          THEN [@[i] EXCEPT !.geom = geom]
                                          ELSE @[i]]]

\* GeoEditor.applyScaledFeature: the store entry of the target takes the
\* geometry, and so does the first selection entry
applyScaledFeature(x, f) ==
  [x EXCEPT !.w = handleUpdateGeometry(@, x.m.scaleTargetGeomanData, f.geom),
            !.m = IF x.m.state.selectedFeatures = <<>> THEN @
                  ELSE [@ EXCEPT !.state.selectedFeatures[1] =
                                    [id |-> IF x.m.scaleTargetGeomanData # 0
                                            THEN x.m.scaleTargetGeomanData
                                            ELSE extractFeatureId(f),
                                     feature |-> f,
                                     geomanData |-> IF x.m.scaleTargetGeomanData # 0
                                                    THEN x.m.scaleTargetGeomanData
                                                    ELSE @.geomanData],
                                 !.scaleTargetFeature = f]]

\* boundScaleMouseDown on a handle: ScaleFeature.startScale
ScaleStarted(m) ==
  [m EXCEPT !.isScaling = TRUE,
            !.scaleStartFeature = m.scaleTargetFeature,
            !.scaleDragPanEnabled = m.map.dragPan,
            !.map.dragPan = FALSE,
            !.scaleFeature = [activeFeature |-> m.scaleTargetFeature,
                              originalFeature |-> m.scaleTargetFeature]]

\* boundScaleMouseMove: ScaleFeature.updateScale scales the original to
\* geometry g; the scaled feature is applied by the callback and by the
\* handler
ScaleMoved(x, g) ==
  IF x.m.scaleFeature.activeFeature = NoFeature THEN x
  ELSE applyScaledFeature(
         applyScaledFeature(
           [x EXCEPT !.m.scaleFeature.activeFeature =
                        [x.m.scaleFeature.originalFeature EXCEPT !.geom = g]],
           [x.m.scaleFeature.originalFeature EXCEPT !.geom = g]),
         [x.m.scaleFeature.originalFeature EXCEPT !.geom = g])

\* boundScaleMouseUp: ScaleFeature.endScale hands back the active feature
ScaleEnded(x) ==
  IF x.m.scaleFeature.activeFeature = NoFeature
    THEN [x EXCEPT !.m.isScaling = FALSE, !.m.scaleStartFeature = NoFeature,
                   !.m.map = restoreDragPan(@, x.m.scaleDragPanEnabled),
                   !.m.scaleDragPanEnabled = FALSE]
    ELSE applyScaledFeature(
           [x EXCEPT !.m.isScaling = FALSE, !.m.scaleStartFeature = NoFeature,
                     !.m.map = restoreDragPan(@, x.m.scaleDragPanEnabled),
                     !.m.scaleDragPanEnabled = FALSE,
                     !.m.scaleFeature = IdleModes.scaleFeature],
           x.m.scaleFeature.activeFeature)

\* turf.transformTranslate on a geometry
Translated(g) == IF g \in Geoms THEN (g % NumGeoms) + 1 ELSE g

\* boundMultiDragMouseDown on a selected feature
MultiDragStarted(m, st) ==
  [m EXCEPT !.isMultiDragging = TRUE,
            !.multiDragPanEnabled = m.map.dragPan,
            !.map.dragPan = FALSE,
            !.multiDragOriginalFeatures = getSelectedFeatures(m),
            !.multiDragGeomanData =
               [i \in DOMAIN m.state.selectedFeatures |->
                  IF m.state.selectedFeatures[i].geomanData # 0
                    THEN m.state.selectedFeatures[i].geomanData
                    ELSE findGeomanDataForFeature(st, m.state.selectedFeatures[i].feature).sid]]

\* the forEach of boundMultiDragMouseMove from index k on
RECURSIVE UpdateEach(_, _, _, _)
UpdateEach(w, features, handles, k) ==
  IF k > Len(features) THEN w
  ELSE UpdateEach(handleUpdateGeometry(w, handles[k], Translated(features[k].geom)),
                  features, handles, k + 1)

\* boundMultiDragMouseMove
MultiDragMoved(x) ==
  [x EXCEPT !.w = UpdateEach(@, x.m.multiDragOriginalFeatures, x.m.multiDragGeomanData, 1),
            !.m.state.selectedFeatures =
               [i \in DOMAIN @ |->
                  IF i \in DOMAIN x.m.multiDragOriginalFeatures
                    THEN [@[i] EXCEPT !.feature =
                            [x.m.multiDragOriginalFeatures[i] EXCEPT
                               !.geom = Translated(x.m.multiDragOriginalFeatures[i].geom)]]
                    ELSE @[i]]]

\* boundMultiDragMouseUp
MultiDragEnded(m) ==
  [m EXCEPT !.isMultiDragging = FALSE, !.multiDragOriginalFeatures = <<>>,
            !.map = restoreDragPan(@, m.multiDragPanEnabled),
            !.multiDragPanEnabled = FALSE,
            !.multiDragGeomanData = <<>>]

\* GeoEditor.getFeatures: the GeoJSON of every entry, in store order
getFeatures(st) == [i \in DOMAIN st |-> getGeomanFeature(st[i])]

\* LassoFeature.selectWithinLasso: the features whose geometry the lasso
\* meets, covered being the geometries it meets
selectWithinLasso(covered, features) == SelectSeq(features, LAMBDA f : f.geom \in covered)

\* GeoEditor.handleLassoResult
handleLassoResult(m, st, covered) ==
  disableAllModes(selectFeatures(m, st, selectWithinLasso(covered, getFeatures(st)), <<>>))

\* a click handler that takes the second polygon for a confirmation
boundClickHandlerConfirming(m, st, hit, shiftKey) ==
  IF m.pendingOperation # NoMode /\ hit # 0
    THEN IF Len(getPolygonFeatures(getSelectedFeatures(
                  addToSelection(m, st, getGeomanFeature(st[hit]), st[hit].sid)))) >= 2
           THEN [addToSelection(m, st, getGeomanFeature(st[hit]), st[hit].sid)
                   EXCEPT !.pendingOperation = NoMode]
           ELSE addToSelection(m, st, getGeomanFeature(st[hit]), st[hit].sid)
    ELSE m

\* the click handler of setupSelectionHandler: hit is the position of the
\* store entry under the pointer, 0 for none
boundClickHandler(m, st, hit, shiftKey) ==
  IF ~m.isSelectMode /\ m.pendingOperation = NoMode THEN m
  ELSE IF hit # 0
    THEN IF m.pendingOperation # NoMode
           THEN IF isPolygon(getGeomanFeature(st[hit]))
                  THEN addToSelection(m, st, getGeomanFeature(st[hit]), st[hit].sid)
                  ELSE m
         ELSE IF shiftKey
           THEN toggleFeatureSelection(m, st, getGeomanFeature(st[hit]), st[hit].sid)
           ELSE selectFeatures(m, st, <<getGeomanFeature(st[hit])>>, <<st[hit].sid>>)
    ELSE IF ~shiftKey /\ m.pendingOperation = NoMode THEN clearSelection(m)
    ELSE m

\* ---- state machine -------------------------------------------------------
Policies == {"keep", "shadow", "reassign"}

NoObs == [op |-> "init", ret |-> FALSE, calls |-> <<>>, notes |-> <<>>, dropped |-> 0,
          discarded |-> 0, evicted |-> 0, recorded |-> 0, deleted |-> <<>>]

NoPhase == [n |-> 0, u |-> 0, r |-> 0]

\* no gesture is in flight
NoGesture == [active |-> FALSE, store |-> <<>>, undoStack |-> <<>>, cancelled |-> FALSE]

\* what the store's entries offer for a geometry update
UpdateModes == {"direct", "none", "throws"}

\* the editor as constructed, on any store
Constructed ==
  /\ store = <<>>
  /\ nextId = 1
  /\ policy \in Policies
  /\ updateMode \in UpdateModes
  /\ historyEnabled \in BOOLEAN
  /\ undoStack = <<>>
  /\ redoStack = <<>>
  /\ isExecuting = FALSE
  /\ isPerformingCompositeOperation = FALSE
  /\ pendingEditFeature = NoFeature
  /\ editing = 0
  /\ nextSerial = 1
  /\ lastNotified = [fired |-> FALSE, pair |-> <<FALSE, FALSE>>]
  /\ obs = NoObs
  /\ phase = NoPhase
  /\ state = IdleModes.state
  /\ isSelectMode = FALSE
  /\ pendingOperation = NoMode
  /\ isScaling = FALSE
  /\ scaleTargetFeature = NoFeature
  /\ scaleTargetGeomanData = 0
  /\ scaleStartFeature = NoFeature
  /\ isMultiDragging = FALSE
  /\ multiDragOriginalFeatures = <<>>
  /\ multiDragGeomanData = <<>>
  /\ scaleFeature = IdleModes.scaleFeature
  /\ lassoFeature = IdleModes.lassoFeature
  /\ splitFeature = IdleModes.splitFeature
  /\ freehandFeature = IdleModes.freehandFeature
  /\ scaleDragPanEnabled = FALSE
  /\ multiDragPanEnabled = FALSE
  /\ notified = <<>>
  /\ modeNotified = <<>>
  /\ call = IdleModes.call
  /\ seen = <<>>
  /\ gesture = NoGesture

\* on a store whose entries have updateGeometry
Start == Constructed /\ updateMode = "direct"

\* the editor on a map with its interaction hooks as MapLibre creates them
Init == Start /\ map = IdleModes.map

\* the HistoryManager as the running handler finds it
HM ==
  [undoStack |-> undoStack, redoStack |-> redoStack, isExecuting |-> isExecuting,
   nextSerial |-> nextSerial, snap |-> Content(store), notes |-> <<>>, dropped |-> 0,
   discarded |-> 0, evicted |-> 0, calls |-> <<>>]

\* a handler that leaves history and store alone
Unchanged(ret) == [h |-> HM, w |-> World(store, nextId), ret |-> ret]

\* phase after a handler: n commands recorded in a row, then u of them
\* undone in a row, then r of those redone in a row
NextPhase(op, ret, recorded) ==
  CASE recorded > 0 ->
         [n |-> IF phase.u = 0 THEN phase.n + 1 ELSE 1, u |-> 0, r |-> 0]
    [] recorded = 0 /\ op = "undo" /\ ret ->
         IF phase.r = 0 /\ phase.u < phase.n THEN [phase EXCEPT !.u = @ + 1] ELSE NoPhase
    [] recorded = 0 /\ op = "redo" /\ ret ->
         IF phase.r < phase.u THEN [phase EXCEPT !.r = @ + 1] ELSE NoPhase
    [] OTHER -> NoPhase

\* the handler returns: its history record x.h and world x.w become the state
Returned(r, op) ==
  \E x \in {r} :
    /\ x.w.nextId <= MaxId + 1
    /\ store' = x.w.store
    /\ nextId' = x.w.nextId
    /\ undoStack' = x.h.undoStack
    /\ redoStack' = x.h.redoStack
    /\ isExecuting' = x.h.isExecuting
    /\ isPerformingCompositeOperation' = FALSE
    /\ nextSerial' = x.h.nextSerial
    /\ lastNotified' = IF x.h.notes = <<>> THEN lastNotified
                       ELSE [fired |-> TRUE, pair |-> Last(x.h.notes)]
    /\ obs' = [op |-> op, ret |-> x.ret, calls |-> x.h.calls, notes |-> x.h.notes,
               dropped |-> x.h.dropped, discarded |-> x.h.discarded,
               evicted |-> x.h.evicted, recorded |-> x.h.nextSerial - nextSerial,
               deleted |-> x.w.deleted]
    /\ phase' = NextPhase(op, x.ret, x.h.nextSerial - nextSerial)
    /\ UNCHANGED <<policy, updateMode, historyEnabled>>

\* a handler of the history and of the store that touches no mode, selection
\* or gesture field
Commit(r, op) == Returned(r, op) /\ UNCHANGED modeVars

Idle == editing = 0 /\ ~isExecuting /\ ~isPerformingCompositeOperation

\* room left, within the bounds, for a handler that records one command and
\* draws n fresh ids
Room(n) == nextId + n <= MaxId + 1 /\ (historyEnabled => nextSerial <= MaxCmds)

\* the store has raised its events: the listener runs on them
Listened(w) ==
  [h |-> GlobalEventsListener(HM, isPerformingCompositeOperation, w.events), w |-> w,
   ret |-> TRUE]

\* the store's draw mode adds entry e and raises gm:create
Drawn(e) ==
  [World(Append(store, e), nextId + 1) EXCEPT
     !.events = <<[name |-> "gm:create", feature |-> getGeomanFeature(e)]>>]

\* The user draws a shape with the store's draw mode: the store adds the
\* feature under an id of its own and raises gm:create.
Draw(g) ==
  /\ Idle
  /\ Room(1)
  /\ Len(store) < MaxFeatures
  /\ Commit(Listened(Drawn([sid |-> nextId, gid |-> nextId, geom |-> g, lid |-> nextId])),
            "draw")
  /\ UNCHANGED <<pendingEditFeature, editing>>

\* The user removes a feature with the store's removal mode: feature_removed.
Remove(i) ==
  /\ Idle
  /\ Room(0)
  /\ i \in DOMAIN store
  /\ Commit(Listened(featuresDelete(World(store, nextId), store[i].sid)), "remove")
  /\ UNCHANGED <<pendingEditFeature, editing>>

\* feature_edit_start: the pre-edit state is kept.  Until the gesture ends
\* the pointer is captured by the store's edit mode, so no other handler runs.
EditStart(i) ==
  /\ Idle
  /\ i \in DOMAIN store
  /\ pendingEditFeature' = getGeomanFeature(store[i])
  /\ editing' = store[i].sid
  /\ obs' = [NoObs EXCEPT !.op = "editstart", !.ret = TRUE]
  /\ phase' = IF phase.u = 0 THEN phase ELSE NoPhase
  /\ UNCHANGED <<store, nextId, policy, updateMode, historyEnabled, undoStack, redoStack,
                 isExecuting, isPerformingCompositeOperation, nextSerial, lastNotified,
                 modeVars>>

\* feature_edit_end: the store has changed the geometry of entry i to g; the
\* edit is recorded.
Edited(i, g) ==
  [h |-> IF pendingEditFeature # NoFeature
         THEN recordEditOperation(HM, isPerformingCompositeOperation, pendingEditFeature,
                                  [getGeomanFeature(store[i]) EXCEPT !.geom = g])
         ELSE HM,
   w |-> World([store EXCEPT ![i].geom = g], nextId),
   ret |-> TRUE]

EditEnd(g) ==
  /\ editing # 0
  /\ Room(0)
  /\ \E i \in DOMAIN store :
       /\ store[i].sid = editing
       /\ store[i].geom # g
       /\ Commit(Edited(i, g), "edit")
  /\ pendingEditFeature' = NoFeature
  /\ editing' = 0

\* sequences of distinct store positions: a selection, in selection order
Selections ==
  {s \in UNION {[1..n -> DOMAIN store] : n \in 2..MaxSelected} :
     \A a, b \in DOMAIN s : a # b => s[a] # s[b]}

SelectedFeatures(s) == [k \in DOMAIN s |-> getGeomanFeature(store[s[k]])]

\* an operation that failed or could not be attempted: the result handler
\* returns before anything is recorded or changed
OperationFails(op) ==
  /\ Idle
  /\ Commit(Unchanged(FALSE), op)
  /\ UNCHANGED <<pendingEditFeature, editing>>

\* a feature the geometry library returns, under a generated id
Generated(k, g) == [id |-> nextId + k, geom |-> g, lid |-> nextId + k]

\* executeUnion on two or more selected polygons with a polygon of geometry
\* g returned by the geometry library, then handleUnionResult
Union(s, g) ==
  /\ Idle
  /\ Room(1)
  /\ s \in Selections
  /\ Commit(applyCompositeResult(HM, World(store, nextId + 1), SelectedFeatures(s),
                                 <<Generated(0, g)>>, "Union"),
            "union")
  /\ UNCHANGED <<pendingEditFeature, editing>>

UnionFails == Len(store) >= 2 /\ OperationFails("union")

\* executeDifference: the first selected polygon is the base; then
\* handleDifferenceResult.  A polygon of geometry g is left.
Difference(s, g) ==
  /\ Idle
  /\ Room(1)
  /\ s \in Selections
  /\ Commit(applyCompositeResult(HM, World(store, nextId + 1), SelectedFeatures(s),
                                 <<Generated(0, g)>>, "Difference"),
            "difference")
  /\ UNCHANGED <<pendingEditFeature, editing>>

\* executeDifference when the base is consumed: result null, success true
DifferenceConsumes(s) ==
  /\ Idle
  /\ Room(0)
  /\ s \in Selections
  /\ Commit(applyCompositeResult(HM, World(store, nextId), SelectedFeatures(s), <<>>,
                                 "Difference"),
            "difference")
  /\ UNCHANGED <<pendingEditFeature, editing>>

DifferenceFails == Len(store) >= 2 /\ OperationFails("difference")

\* the split callback, handleSplitResult: np parts with fresh ids replace the
\* target
Split(i, np) ==
  /\ Idle
  /\ Room(np)
  /\ i \in DOMAIN store
  /\ Commit(applyCompositeResult(HM, World(store, nextId + np),
                                 <<getGeomanFeature(store[i])>>,
                                 [k \in 1..np |-> Generated(k - 1, ((k - 1) % NumGeoms) + 1)],
                                 "Split"),
            "split")
  /\ UNCHANGED <<pendingEditFeature, editing>>

SplitFails == Len(store) >= 1 /\ OperationFails("split")

\* executeSimplify on one selected feature, then applySimplifyResult: the
\* simplified clone keeps the id of the original
Simplify(i, g) ==
  /\ Idle
  /\ Room(0)
  /\ i \in DOMAIN store
  /\ g # store[i].geom
  /\ Commit(applyCompositeResult(HM, World(store, nextId), <<getGeomanFeature(store[i])>>,
                                 <<[getGeomanFeature(store[i]) EXCEPT !.geom = g]>>,
                                 "Simplify"),
            "simplify")
  /\ UNCHANGED <<pendingEditFeature, editing>>

SimplifyFails == Len(store) >= 1 /\ OperationFails("simplify")

\* GeoEditor.undo()
Undo ==
  /\ Idle
  /\ Commit(IF historyEnabled
              THEN undo(HM, World(store, nextId), isPerformingCompositeOperation)
              ELSE Unchanged(FALSE),
            "undo")
  /\ UNCHANGED <<pendingEditFeature, editing>>

\* GeoEditor.redo()
Redo ==
  /\ Idle
  /\ Commit(IF historyEnabled
              THEN redo(HM, World(store, nextId), isPerformingCompositeOperation)
              ELSE Unchanged(FALSE),
            "redo")
  /\ UNCHANGED <<pendingEditFeature, editing>>

\* GeoEditor.clearHistory()
Cleared == [h |-> IF historyEnabled THEN clear(HM) ELSE HM, w |-> World(store, nextId),
            ret |-> TRUE]

ClearHistory ==
  /\ Idle
  /\ Commit(Cleared, "clear")
  /\ UNCHANGED <<pendingEditFeature, editing>>

\* GeoEditor.undo() while the store refuses the import with an exception
UndoRaises ==
  /\ Idle
  /\ historyEnabled
  /\ canUndo(HM)
  /\ Imports(Last(undoStack), "undo")
  /\ Commit(undoRaised(HM, World(store, nextId)), "undo")
  /\ UNCHANGED <<pendingEditFeature, editing>>

\* GeoEditor.redo() while the store refuses the import with an exception
RedoRaises ==
  /\ Idle
  /\ historyEnabled
  /\ canRedo(HM)
  /\ Imports(Last(redoStack), "execute")
  /\ Commit(redoRaised(HM, World(store, nextId)), "redo")
  /\ UNCHANGED <<pendingEditFeature, editing>>

\* History: single-feature gestures of the store, undo, redo and clear
Next ==
  \/ \E g \in Geoms : Draw(g)
  \/ \E i \in DOMAIN store : Remove(i)
  \/ \E i \in DOMAIN store : EditStart(i)
  \/ \E g \in Geoms : EditEnd(g)
  \/ Undo
  \/ Redo
  \/ ClearHistory

Spec == Init /\ [][Next]_vars

\* History on a store whose entries have no working geometry update: the
\* methods are missing, or they raise
InitFallback ==
  /\ Constructed
  /\ map = IdleModes.map
  /\ historyEnabled
  /\ updateMode # "direct"

SpecFallback == InitFallback /\ [][Next]_vars

\* History on a store whose importGeoJsonFeature may raise
InitRaising == Init /\ historyEnabled /\ policy = "keep"

NextRaising ==
  \/ Next
  \/ UndoRaises
  \/ RedoRaises

SpecRaising == InitRaising /\ [][NextRaising]_vars

\* Composite operations of an editor constructed with history enabled:
\* drawing, the four composite result handlers, undo and redo
InitOps == Init /\ historyEnabled

NextOps ==
  \/ \E g \in Geoms : Draw(g)
  \/ \E s \in Selections, g \in Geoms : Union(s, g)
  \/ UnionFails
  \/ \E s \in Selections, g \in Geoms : Difference(s, g)
  \/ \E s \in Selections : DifferenceConsumes(s)
  \/ DifferenceFails
  \/ \E i \in DOMAIN store, np \in 1..MaxParts : Split(i, np)
  \/ SplitFails
  \/ \E i \in DOMAIN store, g \in Geoms : Simplify(i, g)
  \/ SimplifyFails
  \/ Undo
  \/ Redo

SpecOps == InitOps /\ [][NextOps]_vars

\* ---- modes, selection and gestures -----------------------------------------
\* the mode fields as the running handler finds them
Modes ==
  [state |-> state, isSelectMode |-> isSelectMode, pendingOperation |-> pendingOperation,
   isScaling |-> isScaling, scaleTargetFeature |-> scaleTargetFeature,
   scaleTargetGeomanData |-> scaleTargetGeomanData, scaleStartFeature |-> scaleStartFeature,
   isMultiDragging |-> isMultiDragging,
   multiDragOriginalFeatures |-> multiDragOriginalFeatures,
   multiDragGeomanData |-> multiDragGeomanData, scaleFeature |-> scaleFeature,
   lassoFeature |-> lassoFeature, splitFeature |-> splitFeature,
   freehandFeature |-> freehandFeature, map |-> map,
   scaleDragPanEnabled |-> scaleDragPanEnabled,
   multiDragPanEnabled |-> multiDragPanEnabled, notified |-> <<>>, modeNotified |-> <<>>,
   call |-> IdleModes.call, seen |-> <<>>]

\* a gesture is in flight: a scale or multi-drag drag, a lasso or freehand
\* stroke, a split line
InFlight(m) ==
  \/ m.isScaling
  \/ m.isMultiDragging
  \/ m.lassoFeature.isDrawing
  \/ m.freehandFeature.isDrawing
  \/ m.splitFeature.isDrawing

\* the handler that is running, before its first statement
Running == Handler(Unchanged(TRUE), Modes)

\* the handler returns: the mode fields x.m become the state
Settled(r, op) ==
  \E x \in {r} :
    /\ Returned(x, op)
    /\ state' = x.m.state
    /\ isSelectMode' = x.m.isSelectMode
    /\ pendingOperation' = x.m.pendingOperation
    /\ isScaling' = x.m.isScaling
    /\ scaleTargetFeature' = x.m.scaleTargetFeature
    /\ scaleTargetGeomanData' = x.m.scaleTargetGeomanData
    /\ scaleStartFeature' = x.m.scaleStartFeature
    /\ isMultiDragging' = x.m.isMultiDragging
    /\ multiDragOriginalFeatures' = x.m.multiDragOriginalFeatures
    /\ multiDragGeomanData' = x.m.multiDragGeomanData
    /\ scaleFeature' = x.m.scaleFeature
    /\ lassoFeature' = x.m.lassoFeature
    /\ splitFeature' = x.m.splitFeature
    /\ freehandFeature' = x.m.freehandFeature
    /\ map' = x.m.map
    /\ scaleDragPanEnabled' = x.m.scaleDragPanEnabled
    /\ multiDragPanEnabled' = x.m.multiDragPanEnabled
    /\ notified' = x.m.notified
    /\ modeNotified' = x.m.modeNotified
    /\ call' = x.m.call
    /\ seen' = x.m.seen
    /\ gesture' = IF ~InFlight(x.m)
                    THEN [NoGesture EXCEPT !.cancelled = gesture.active /\ op = "disableAllModes"]
                  ELSE IF gesture.active THEN gesture
                  ELSE [active |-> TRUE, store |-> store, undoStack |-> undoStack,
                        cancelled |-> FALSE]
    /\ UNCHANGED <<pendingEditFeature, editing>>

\* a handler that touches the mode fields only
SettledModes(m, op) == Settled([Running EXCEPT !.m = m], op)

\* sequences of one or two store positions, repeats included
Picks == UNION {[1..n -> DOMAIN store] : n \in 1..2}

\* selectFeatures(features) called with features of the store
SelectFeatures(s) ==
  /\ Idle
  /\ s \in Picks
  /\ SettledModes(selectFeatures(Modes, store, SelectedFeatures(s), <<>>), "selectFeatures")

\* addToSelection(feature) called with a feature of the store
AddToSelection(i) ==
  /\ Idle
  /\ i \in DOMAIN store
  /\ SettledModes(addToSelection(Modes, store, getGeomanFeature(store[i]), 0),
                  "addToSelection")

\* removeFromSelection(featureId) called with the id of a selected feature
RemoveFromSelection(k) ==
  /\ Idle
  /\ k \in DOMAIN state.selectedFeatures
  /\ SettledModes(removeFromSelection(Modes, state.selectedFeatures[k].id),
                  "removeFromSelection")

\* clearSelection()
ClearSelection ==
  /\ Idle
  /\ SettledModes(clearSelection(Modes), "clearSelection")

\* a click on the map, on store entry hit or on nothing
Click(hit, shiftKey) ==
  /\ Idle
  /\ hit \in 0..Len(store)
  /\ SettledModes(boundClickHandler(Modes, store, hit, shiftKey), "click")

\* enableDrawMode(mode), from the toolbar or the API
EnableDrawMode(mode) ==
  /\ Idle
  /\ SettledModes(enableDrawMode(Modes, mode), "enableDrawMode")

\* enableEditMode(mode), from the toolbar or the API; result is what the
\* geometry library would hand back.  Room for the commands a simplify of
\* every selected feature records.
EnableEditMode(mode, result) ==
  /\ Idle
  /\ Room(1)
  /\ mode \notin OperationModes => result = NoResult
  /\ mode = "simplify" => /\ state.selectedFeatures # <<>>
                          /\ nextSerial + Len(state.selectedFeatures) <= MaxCmds + 1
  /\ Settled(enableEditMode(Running, mode, result), mode)

\* enableSelectMode()
EnableSelectMode ==
  /\ Idle
  /\ SettledModes(enableSelectMode(Modes), "enableSelectMode")

\* disableAllModes()
DisableAllModes ==
  /\ Idle
  /\ SettledModes(disableAllModes(Modes), "disableAllModes")

\* executePendingOperation(), also the Enter key while an operation is pending
ExecutePendingOperation(result) ==
  /\ Idle
  /\ Room(1)
  /\ Settled(executePendingOperation(Running, result), "executePendingOperation")

\* cancelPendingOperation()
CancelPendingOperation ==
  /\ Idle
  /\ SettledModes(cancelPendingOperation(Modes), "cancelPendingOperation")

\* the Escape key
KeyEscape ==
  /\ Idle
  /\ SettledModes(IF pendingOperation # NoMode THEN cancelPendingOperation(Modes)
                  ELSE clearSelection(disableAllModes(Modes)),
                  "escape")

\* pointer down on a scale handle
ScaleMouseDown ==
  /\ Idle
  /\ state.activeEditMode = "scale"
  /\ scaleTargetFeature # NoFeature
  /\ scaleTargetGeomanData # 0
  /\ SettledModes(ScaleStarted(Modes), "scaleMouseDown")

\* pointer move while scaling: the drag scales the original to geometry g
ScaleMouseMove(g) ==
  /\ Idle
  /\ isScaling
  /\ g \in (IF isPolygon(scaleFeature.originalFeature) THEN Geoms ELSE {PointGeom})
  /\ Settled(ScaleMoved(Running, g), "scaleMouseMove")

\* pointer up while scaling
ScaleMouseUp ==
  /\ Idle
  /\ isScaling
  /\ Settled(ScaleEnded(Running), "scaleMouseUp")

\* pointer down on store entry hit in drag mode with several features selected
MultiDragMouseDown(hit) ==
  /\ Idle
  /\ state.activeEditMode = "drag"
  /\ Len(state.selectedFeatures) >= 2
  /\ hit \in DOMAIN store
  /\ \E k \in DOMAIN state.selectedFeatures :
       extractFeatureId(state.selectedFeatures[k].feature)
         = extractFeatureId(getGeomanFeature(store[hit]))
  /\ SettledModes(MultiDragStarted(Modes, store), "multiDragMouseDown")

MultiDragMouseMove ==
  /\ Idle
  /\ isMultiDragging
  /\ Settled(MultiDragMoved(Running), "multiDragMouseMove")

MultiDragMouseUp ==
  /\ Idle
  /\ isMultiDragging
  /\ SettledModes(MultiDragEnded(Modes), "multiDragMouseUp")

\* pointer down, move and up while the lasso listens
LassoMouseDown ==
  /\ Idle
  /\ lassoFeature.attached
  /\ SettledModes([Modes EXCEPT !.lassoFeature.isDrawing = TRUE, !.lassoFeature.points = 1],
                  "lassoMouseDown")

LassoMouseMove ==
  /\ Idle
  /\ lassoFeature.isDrawing
  /\ lassoFeature.points < MaxPoints
  /\ SettledModes([Modes EXCEPT !.lassoFeature.points = @ + 1], "lassoMouseMove")

\* completeLasso: with three points there is a polygon, and the editor
\* selects what it meets
LassoMouseUp(covered) ==
  /\ Idle
  /\ lassoFeature.isDrawing
  /\ SettledModes(IF lassoFeature.points >= 3
                    THEN handleLassoResult([Modes EXCEPT !.lassoFeature.isDrawing = FALSE],
                                           store, covered)
                    ELSE [Modes EXCEPT !.lassoFeature.isDrawing = FALSE],
                  "lassoMouseUp")

\* a click while the split line is drawn
SplitClick ==
  /\ Idle
  /\ splitFeature.attached
  /\ splitFeature.splitLinePoints < MaxPoints
  /\ SettledModes([Modes EXCEPT !.splitFeature.splitLinePoints = @ + 1], "splitClick")

\* SplitFeature.cleanup
cleanup(m) ==
  [m EXCEPT !.splitFeature.attached = FALSE, !.splitFeature.isDrawing = FALSE,
            !.splitFeature.splitLinePoints = 0]

\* SplitFeature.completeSplit, np being the number of parts the line cuts
\* the target into (0: the split fails)
completeSplit(x, np) ==
  IF x.m.splitFeature.targetFeature = NoFeature \/ ~x.m.splitFeature.onCompleteCallback
     \/ x.m.splitFeature.splitLinePoints < 2
    THEN [x EXCEPT !.m = cleanup(@), !.ret = FALSE]
    ELSE [handleSplitResult(x, x.m.splitFeature.targetFeature, np) EXCEPT !.m = cleanup(@)]

\* a double click while the split line is drawn
SplitDblClick(np) ==
  /\ Idle
  /\ Room(np)
  /\ splitFeature.attached
  /\ Settled(completeSplit(Running, np), "splitDblClick")

\* pointer down and move while freehand drawing listens
FreehandMouseDown ==
  /\ Idle
  /\ freehandFeature.attached
  /\ SettledModes([Modes EXCEPT !.freehandFeature.isDrawing = TRUE,
                                !.freehandFeature.points = 1],
                  "freehandMouseDown")

FreehandMouseMove ==
  /\ Idle
  /\ freehandFeature.isDrawing
  /\ freehandFeature.points < MaxPoints
  /\ SettledModes([Modes EXCEPT !.freehandFeature.points = @ + 1], "freehandMouseMove")

\* completeFreehand: with three points the polygon of geometry g is imported
\* into the store, which gives it an id and reports it
FreehandMouseUp(g) ==
  /\ Idle
  /\ Room(1)
  /\ Len(store) < MaxShapes
  /\ freehandFeature.isDrawing
  /\ Settled(Handler(IF freehandFeature.points >= 3
                       THEN Listened(Drawn([sid |-> nextId, gid |-> nextId, geom |-> g,
                                            lid |-> nextId]))
                       ELSE Unchanged(FALSE),
                     [Modes EXCEPT !.freehandFeature.isDrawing = FALSE]),
             "freehandMouseUp")

\* The user draws a shape while fewer than MaxShapes features are there and
\* no gesture of the editor is in flight
DrawShape(g) == Len(store) < MaxShapes /\ ~InFlight(Modes) /\ Draw(g)

\* Selection: an editor without history, on a store that keeps the ids it is
\* given (no feature is imported a second time); the calls and gestures that
\* write the selection list
InitSelection == Init /\ ~historyEnabled /\ policy = "keep"

NextSelection ==
  \/ \E g \in AllGeoms : DrawShape(g)
  \/ \E s \in Picks : SelectFeatures(s)
  \/ \E i \in DOMAIN store : AddToSelection(i)
  \/ \E k \in DOMAIN state.selectedFeatures : RemoveFromSelection(k)
  \/ ClearSelection
  \/ EnableSelectMode
  \/ \E hit \in 0..Len(store), shiftKey \in BOOLEAN : Click(hit, shiftKey)
  \/ \E mode \in {"scale", "lasso"} : EnableEditMode(mode, NoResult)
  \/ ScaleMouseDown
  \/ \E g \in AllGeoms : ScaleMouseMove(g)
  \/ ScaleMouseUp
  \/ LassoMouseDown
  \/ LassoMouseMove
  \/ \E covered \in SUBSET AllGeoms : LassoMouseUp(covered)

SpecSelection == InitSelection /\ [][NextSelection]_vars

\* Modes: an editor constructed with history enabled; the select mode, the
\* pending operations, the operations on the selection and the split line
InitModes == Init /\ historyEnabled

NextModes ==
  \/ \E g \in AllGeoms : DrawShape(g)
  \/ \E hit \in 0..Len(store), shiftKey \in BOOLEAN : Click(hit, shiftKey)
  \/ \E mode \in OperationModes \cup {"split"}, result \in OperationResults :
       EnableEditMode(mode, result)
  \/ EnableSelectMode
  \/ DisableAllModes
  \/ \E result \in OperationResults : ExecutePendingOperation(result)
  \/ CancelPendingOperation
  \/ KeyEscape
  \/ SplitClick
  \/ \E np \in 0..MaxParts : SplitDblClick(np)

SpecModes == InitModes /\ [][NextModes]_vars

\* Gestures: an editor constructed with history enabled, on a store that
\* keeps the ids it is given (no feature is imported a second time); every
\* mode switch, the gestures of the editor's own modes and their cancellation
\* (the geometry operations find nothing to do). The host has switched the
\* map's drag-pan off, so the drag-pan bookkeeping of the gestures adds no
\* states here; it is followed under SpecHooks
InitGestures ==
  /\ Start
  /\ historyEnabled
  /\ policy = "keep"
  /\ map = [IdleModes.map EXCEPT !.dragPan = FALSE]

NextGestures ==
  \/ \E g \in AllGeoms : DrawShape(g)
  \/ \E hit \in 0..Len(store), shiftKey \in BOOLEAN : Click(hit, shiftKey)
  \/ \E mode \in DrawModes : EnableDrawMode(mode)
  \/ \E mode \in EditModes : EnableEditMode(mode, NoResult)
  \/ EnableSelectMode
  \/ DisableAllModes
  \/ CancelPendingOperation
  \/ KeyEscape
  \/ ScaleMouseDown
  \/ \E g \in AllGeoms : ScaleMouseMove(g)
  \/ ScaleMouseUp
  \/ \E hit \in DOMAIN store : MultiDragMouseDown(hit)
  \/ MultiDragMouseMove
  \/ MultiDragMouseUp
  \/ LassoMouseDown
  \/ LassoMouseMove
  \/ \E covered \in SUBSET AllGeoms : LassoMouseUp(covered)
  \/ SplitClick
  \/ FreehandMouseDown
  \/ FreehandMouseMove
  \/ \E g \in Geoms : FreehandMouseUp(g)

SpecGestures == InitGestures /\ [][NextGestures]_vars

\* Hooks: the same mode switches and gestures on a map with every interaction
\* hook enabled, by an editor constructed without history
InitHooks == Init /\ ~historyEnabled /\ policy = "keep"

SpecHooks == InitHooks /\ [][NextGestures]_vars

\* ---- the geometry operations of the feature classes -----------------------
\* What a call of the geometry library (turf.union, turf.difference,
\* turf.simplify, turf.transformScale, turf.transformTranslate, ...) does is
\* an input of the operation: it raises, or it returns null (geom 0), or it
\* returns a geometry.  turf.clone copies the feature and never raises.
LibraryOutcomes == [raises : {TRUE}, geom : {0}] \cup [raises : {FALSE}, geom : 0..NumGeoms]

\* what the library returns is a geometry: it neither raises nor returns null
Computes(lib) == ~lib.raises /\ lib.geom # 0

\* ids the host gave to its features: none is an id generateFeatureId made
HostIds == {-1}

\* the features an operation may be handed: without id (0), with an id of
\* the host, or with the id generated last
InputFeatures == [id : HostIds \cup {0, nextId - 1}, geom : Geoms, lid : {0}]

\* what an operation hands back: a result record (success, result, error:
\* an error message is set), or raised: the exception reaches the caller;
\* nextId counts the calls of generateFeatureId
Handed(success, result, error, nid) ==
  [raised |-> FALSE, success |-> success, result |-> result, error |-> error, nextId |-> nid]

Raised(nid) ==
  [raised |-> TRUE, success |-> FALSE, result |-> NoFeature, error |-> FALSE, nextId |-> nid]

\* union whose single input keeps its id
unionKeepingId(features, lib, nid) ==
  IF Len(features) = 0 THEN Handed(FALSE, NoFeature, TRUE, nid)
  ELSE IF Len(features) = 1 THEN Handed(TRUE, features[1], FALSE, nid + 1)
  ELSE IF Computes(lib)
    THEN Handed(TRUE, [id |-> nid, geom |-> lib.geom, lid |-> 0], FALSE, nid + 1)
    ELSE Handed(FALSE, NoFeature, TRUE, nid)

\* UnionFeature.union(features): the try block catches what turf.union raises
union(features, lib, nid) ==
  IF Len(features) = 0 THEN Handed(FALSE, NoFeature, TRUE, nid)
  ELSE IF Len(features) = 1
    THEN Handed(TRUE, [features[1] EXCEPT !.id = nid], FALSE, nid + 1)
  ELSE IF Computes(lib)
    THEN Handed(TRUE, [id |-> nid, geom |-> lib.geom, lid |-> 0], FALSE, nid + 1)
    ELSE Handed(FALSE, NoFeature, TRUE, nid)

\* the for loop of difference from the k-th polygon on: run.result is the
\* running result (NoFeature: null), run.applied the polygons handed to
\* turf.difference so far, run.raised whether it raised; libs[k] is what
\* turf.difference does with the k-th polygon
RECURSIVE SubtractEach(_, _, _, _)
SubtractEach(run, subtract, libs, k) ==
  IF k > Len(subtract) \/ run.result = NoFeature \/ run.raised THEN run
  ELSE SubtractEach([result |-> IF Computes(libs[k])
                                  THEN [run.result EXCEPT !.id = 0, !.geom = libs[k].geom]
                                  ELSE NoFeature,
                     applied |-> Append(run.applied, subtract[k]),
                     raised |-> libs[k].raises],
                    subtract, libs, k + 1)

\* the end of a difference without a catch block
DifferencedUncaught(run, nid) ==
  IF run.raised THEN Raised(nid) @@ run
  ELSE IF run.result = NoFeature THEN Handed(TRUE, NoFeature, FALSE, nid) @@ run
  ELSE Handed(TRUE, [run.result EXCEPT !.id = nid], FALSE, nid + 1) @@ run

\* the end of difference: the catch block, the id of the result, and the
\* result record
Differenced(run, nid) ==
  IF run.raised THEN Handed(FALSE, NoFeature, TRUE, nid) @@ run
  ELSE IF run.result = NoFeature THEN Handed(TRUE, NoFeature, FALSE, nid) @@ run
  ELSE Handed(TRUE, [run.result EXCEPT !.id = nid], FALSE, nid + 1) @@ run

\* difference that goes on after the running result is null
differenceToTheEnd(base, subtract, libs, nid) ==
  IF subtract = <<>>
    THEN Handed(TRUE, [base EXCEPT !.id = nid], FALSE, nid + 1) @@ [applied |-> <<>>]
    ELSE Differenced([result |-> IF Computes(libs[Len(libs)])
                                   THEN [base EXCEPT !.id = 0, !.geom = libs[Len(libs)].geom]
                                   ELSE NoFeature,
                      applied |-> subtract,
                      raised |-> \E k \in DOMAIN libs : libs[k].raises], nid)

\* DifferenceFeature.difference(base, subtract)
difference(base, subtract, libs, nid) ==
  IF subtract = <<>>
    THEN Handed(TRUE, [base EXCEPT !.id = nid], FALSE, nid + 1) @@ [applied |-> <<>>]
    ELSE Differenced(SubtractEach([result |-> base, applied |-> <<>>, raised |-> FALSE],
                                  subtract, libs, 1), nid)

\* what the transforms of the library do: they raise or return a geometry
TransformOutcomes == {lib \in LibraryOutcomes : lib.raises \/ lib.geom # 0}

\* a clone that keeps the id whatever the options say
clonedKeepingId(feature, generateNewIds, nid) == feature

\* turf.clone(feature) and the id it is given under options.generateNewIds
cloned(feature, generateNewIds, nid) ==
  IF generateNewIds THEN [feature EXCEPT !.id = nid] ELSE feature

\* features.map(copy) from the k-th feature on: acc.result holds the copies
\* made, acc.nextId counts the generated ids; moved: the offset is not
\* [0, 0], and turf.transformTranslate, which does libs[k], is called
RECURSIVE CopyEach(_, _, _, _, _, _)
CopyEach(acc, features, moved, generateNewIds, libs, k) ==
  IF k > Len(features) \/ acc.raised THEN acc
  ELSE CopyEach(
         IF moved /\ libs[k].raises
           THEN Raised(acc.nextId + (IF generateNewIds THEN 1 ELSE 0))
           ELSE [acc EXCEPT
                   !.result = Append(@, [cloned(features[k], generateNewIds, acc.nextId)
                                           EXCEPT !.geom = IF moved THEN libs[k].geom ELSE @]),
                   !.nextId = @ + (IF generateNewIds THEN 1 ELSE 0)],
         features, moved, generateNewIds, libs, k + 1)

\* CopyFeature.copyMultiple(features, offset); copy(feature, offset) is
\* the same on one feature
copyMultiple(features, moved, generateNewIds, libs, nid) ==
  CopyEach(Handed(TRUE, <<>>, FALSE, nid), features, moved, generateNewIds, libs, 1)

\* CopyFeature.copyToLocation(features, targetCenter): every clone is
\* translated
copyToLocation(features, generateNewIds, libs, nid) ==
  copyMultiple(features, TRUE, generateNewIds, libs, nid)

\* GeoEditor.copySelectedFeatures, then pasteFeatures: the clipboard holds
\* copies of the selection, and copies of the clipboard are pasted
pasteFeatures(clipboard, moved, generateNewIds, libs) ==
  IF clipboard.raised THEN clipboard
  ELSE copyMultiple(clipboard.result, moved, generateNewIds, libs, clipboard.nextId)

\* ---- numbers ---------------------------------------------------------------
\* A number is a fraction [n, d] with d >= 0: d = 0 makes it Infinity
\* (n > 0), -Infinity (n < 0) or NaN (n = 0), as the division of doubles does.
isNaN(a) == a.n = 0 /\ a.d = 0

\* a < b (false when one of them is NaN)
Less(a, b) == ~isNaN(a) /\ ~isNaN(b) /\ a.n * b.d < b.n * a.d

\* Math.max(a, b), Math.min(a, b): NaN when one of them is NaN
MathMax(a, b) == IF isNaN(a) THEN a ELSE IF isNaN(b) THEN b ELSE IF Less(a, b) THEN b ELSE a
MathMin(a, b) == IF isNaN(a) THEN a ELSE IF isNaN(b) THEN b ELSE IF Less(b, a) THEN b ELSE a

\* geometryUtils.clamp(value, min, max)
clamp(value, min, max) == MathMin(MathMax(value, min), max)

\* ScaleFeature.options: SCALE_HANDLE_DEFAULTS.minScale (0.1) and maxScale (10)
scaleOptions == [minScale |-> [n |-> 1, d |-> 10], maxScale |-> [n |-> 10, d |-> 1]]

\* ScaleFeature.scale(feature, factor, origin): what is handed back carries
\* the factor given to turf.transformScale
scale(feature, factor, lib, nid) ==
  IF lib.raises THEN Raised(nid) @@ [factor |-> clamp(factor, scaleOptions.minScale, scaleOptions.maxScale)]
  ELSE [raised |-> FALSE,
        result |-> [feature EXCEPT !.geom = lib.geom,
                                   !.id = IF feature.id # 0 THEN @ ELSE nid],
        factor |-> clamp(factor, scaleOptions.minScale, scaleOptions.maxScale),
        nextId |-> IF feature.id # 0 THEN nid ELSE nid + 1]

\* ScaleFeature.scaleFromHandle(feature, handlePosition, startPoint,
\* currentPoint), the two points at the distances startDistance and
\* currentDistance from the centroid
scaleFromHandle(feature, startDistance, currentDistance, lib, nid) ==
  scale(feature, clamp([n |-> currentDistance, d |-> startDistance], scaleOptions.minScale, scaleOptions.maxScale),
        lib, nid)

\* SimplifyFeature.simplifyWithStats(feature): no try block
simplifyWithStats(feature, lib, nid) ==
  IF lib.raises THEN Raised(nid)
  ELSE [raised |-> FALSE, result |-> [feature EXCEPT !.geom = lib.geom],
        original |-> feature, nextId |-> nid]

\* SplitFeature.splitPolygon(polygon, splitter), np being the number of
\* parts performPolygonSplit finds: the try block catches what the library
\* raises
splitPolygon(polygon, lib, np, nid) ==
  IF lib.raises \/ np = 0 THEN Handed(FALSE, <<>>, TRUE, nid)
  ELSE Handed(TRUE, [k \in 1..np |-> [id |-> nid + k - 1, geom |-> lib.geom, lid |-> 0]],
              FALSE, nid + np)

\* ---- calls of the geometry operations --------------------------------------
\* the lists of at most n elements of S
Lists(S, n) == UNION {[1..k -> S] : k \in 0..n}

\* the distances and the parts of the requested factors
Distances == 0..MaxDistance

\* the factors a caller may ask for: fractions, the infinities and NaN
Factors == [n : -1..MaxDistance, d : Distances]

\* an operation is called with the operands c and hands back out
Operation(c, out) ==
  \E o \in {out} :
    /\ call = IdleModes.call
    /\ o.nextId <= MaxId + 1
    /\ call' = c @@ [out |-> o]
    /\ nextId' = o.nextId
    /\ UNCHANGED <<store, policy, updateMode, historyEnabled, undoStack, redoStack,
                   isExecuting, isPerformingCompositeOperation, pendingEditFeature, editing,
                   nextSerial, lastNotified, obs, phase, state, isSelectMode,
                   pendingOperation, isScaling, scaleTargetFeature, scaleTargetGeomanData,
                   scaleStartFeature, isMultiDragging, multiDragOriginalFeatures,
                   multiDragGeomanData, scaleFeature, lassoFeature, splitFeature,
                   freehandFeature, map, scaleDragPanEnabled, multiDragPanEnabled,
                   notified, modeNotified, seen, gesture>>

\* the caller is done with what it was handed
Forget ==
  /\ call # IdleModes.call
  /\ call' = IdleModes.call
  /\ UNCHANGED <<store, nextId, policy, updateMode, historyEnabled, undoStack, redoStack,
                 isExecuting, isPerformingCompositeOperation, pendingEditFeature, editing,
                 nextSerial, lastNotified, obs, phase, state, isSelectMode,
                 pendingOperation, isScaling, scaleTargetFeature, scaleTargetGeomanData,
                 scaleStartFeature, isMultiDragging, multiDragOriginalFeatures,
                 multiDragGeomanData, scaleFeature, lassoFeature, splitFeature,
                 freehandFeature, map, scaleDragPanEnabled, multiDragPanEnabled,
                 notified, modeNotified, seen, gesture>>

\* with fewer than two features turf.union is not called
UnionCall(features, lib) ==
  /\ Len(features) < 2 => lib = [raises |-> FALSE, geom |-> 0]
  /\ Operation([op |-> "union", features |-> features, lib |-> lib],
               union(features, lib, nextId))

\* lib: turf.difference raises on a polygon that is reached
DifferenceCall(base, subtract, libs) ==
  Operation([op |-> "difference", base |-> base, subtract |-> subtract, libs |-> libs,
             lib |-> [raises |-> \E k \in DOMAIN libs :
                                   libs[k].raises /\ \A j \in 1..(k - 1) : Computes(libs[j]),
                      geom |-> 0]],
            difference(base, subtract, libs, nextId))

SplitCall(polygon, lib, np) ==
  Operation([op |-> "split", features |-> <<polygon>>, lib |-> lib],
            splitPolygon(polygon, lib, np, nextId))

SimplifyCall(feature, lib) ==
  Operation([op |-> "simplify", features |-> <<feature>>, lib |-> lib],
            simplifyWithStats(feature, lib, nextId))

ScaleCall(feature, factor, lib) ==
  Operation([op |-> "scale", features |-> <<feature>>, lib |-> lib, factor |-> factor],
            scale(feature, factor, lib, nextId))

ScaleFromHandleCall(feature, startDistance, currentDistance, lib) ==
  Operation([op |-> "scaleFromHandle", features |-> <<feature>>, lib |-> lib,
             factor |-> [n |-> currentDistance, d |-> startDistance]],
            scaleFromHandle(feature, startDistance, currentDistance, lib, nextId))

\* turf.transformTranslate is called, and one of its calls raises
RaisesIn(libs, called) ==
  [raises |-> called /\ \E k \in DOMAIN libs : libs[k].raises, geom |-> 0]

CopyCall(features, moved, generateNewIds, libs) ==
  Operation([op |-> "copy", features |-> features, generateNewIds |-> generateNewIds,
             lib |-> RaisesIn(libs, moved)],
            copyMultiple(features, moved, generateNewIds, libs, nextId))

CopyToLocationCall(features, generateNewIds, libs) ==
  Operation([op |-> "copyToLocation", features |-> features,
             generateNewIds |-> generateNewIds,
             lib |-> RaisesIn(libs, TRUE)],
            copyToLocation(features, generateNewIds, libs, nextId))

\* copySelectedFeatures on the selection, then pasteFeatures
PasteCall(selected, generateNewIds, libs) ==
  Operation([op |-> "paste", features |-> selected, generateNewIds |-> generateNewIds,
             lib |-> RaisesIn(libs, TRUE)],
            pasteFeatures(copyMultiple(selected, TRUE, generateNewIds, libs, nextId),
                          TRUE, generateNewIds, libs))

\* Features: the operations of the feature classes, called one at a time
\* on features of the host and on features made earlier
InitFeatures == Init /\ ~historyEnabled /\ policy = "keep"

\* no call is under way
Ready == call = IdleModes.call

NextFeatures ==
  \/ Forget
  \/ Ready /\ \E features \in Lists(InputFeatures, MaxOperands), lib \in LibraryOutcomes :
       UnionCall(features, lib)
  \/ Ready /\ \E base \in InputFeatures, subtract \in Lists(InputFeatures, MaxOperands) :
       \E libs \in [DOMAIN subtract -> LibraryOutcomes] : DifferenceCall(base, subtract, libs)
  \/ Ready /\ \E polygon \in InputFeatures, lib \in TransformOutcomes, np \in 0..MaxParts :
       SplitCall(polygon, lib, np)
  \/ Ready /\ \E feature \in InputFeatures, lib \in TransformOutcomes :
       SimplifyCall(feature, lib)
  \/ Ready /\ \E feature \in InputFeatures, factor \in Factors, lib \in TransformOutcomes :
       ScaleCall(feature, factor, lib)
  \/ Ready /\ \E feature \in InputFeatures, startDistance \in Distances,
                currentDistance \in Distances, lib \in TransformOutcomes :
       ScaleFromHandleCall(feature, startDistance, currentDistance, lib)
  \/ Ready /\ \E features \in Lists(InputFeatures, MaxOperands) \ {<<>>}, moved \in BOOLEAN,
        generateNewIds \in BOOLEAN :
       \E libs \in [DOMAIN features -> TransformOutcomes] :
         CopyCall(features, moved, generateNewIds, libs)
  \/ Ready /\ \E features \in Lists(InputFeatures, MaxOperands) \ {<<>>},
                generateNewIds \in BOOLEAN :
       \E libs \in [DOMAIN features -> TransformOutcomes] :
         CopyToLocationCall(features, generateNewIds, libs)
  \/ Ready /\ \E selected \in Lists(InputFeatures, MaxOperands) \ {<<>>},
                generateNewIds \in BOOLEAN :
       \E libs \in [DOMAIN selected -> TransformOutcomes] :
         PasteCall(selected, generateNewIds, libs)

SpecFeatures == InitFeatures /\ [][NextFeatures]_vars

\* ---- properties -----------------------------------------------------------
Min(a, b) == IF a < b THEN a ELSE b

\* the last n entries of s
Suffix(s, n) == SubSeq(s, Len(s) - n + 1, Len(s))

Serials(s) == [i \in DOMAIN s |-> s[i].serial]

\* C1: when n commands were recorded in a row and u <= n undos follow, the
\* store holds the features it held before the u-th last of them was
\* recorded; when u redos follow, it holds again the features it held after
\* the last of them.
C1_UndoRedoRestoreStore ==
  /\ (obs.op = "undo" /\ obs.ret /\ phase.u > 0)
       => Content(store) = Last(redoStack).pre
  /\ (obs.op = "redo" /\ obs.ret /\ phase.r > 0 /\ phase.r = phase.u)
       => Content(store) = Last(undoStack).post

\* C2: a handler that records a command leaves the redo stack empty, and a
\* redo() that comes next returns false, runs no command and leaves the store
\* and the stacks alone.
C2_RecordEmptiesRedo ==
  [][/\ obs'.recorded > 0 => redoStack' = <<>>
     /\ (obs.recorded > 0 /\ obs'.op = "redo")
          => /\ ~obs'.ret
             /\ obs'.calls = <<>>
             /\ UNCHANGED <<store, undoStack, redoStack>>]_vars

\* C2 witness: a command was recorded while undone commands were waiting
C2_Witness == obs.recorded > 0 /\ obs.discarded > 0 /\ redoStack = <<>>

\* C3: the undo stack never holds more than maxSize entries, its entries are
\* in recording order, and record() leaves the newest entries of the old
\* stack followed by the new command.
C3_UndoStackBounded ==
  [][/\ Len(undoStack') <= maxSize
     /\ \A i, j \in DOMAIN undoStack' : i < j => undoStack'[i].serial < undoStack'[j].serial
     /\ obs'.recorded > 0
          => /\ Len(undoStack') = Min(Len(undoStack) + 1, maxSize)
             /\ Last(undoStack').serial = nextSerial
             /\ Front(undoStack') = Suffix(undoStack, Len(undoStack') - 1)]_vars

\* C3 witness: record() has shifted an entry out of a full stack
C3_Witness == obs.evicted > 0 /\ Len(undoStack) = maxSize

\* C4: what the store reports while undo() or redo() runs a command is not
\* recorded: no command object is made, the other stack is not cleared, the
\* only notification is the one of undo()/redo() itself, and the command that
\* ran is on top of the other stack.
C4_ReplayNotRecorded ==
  [][(obs'.op \in {"undo", "redo"} /\ obs'.ret)
       => /\ obs'.recorded = 0
          /\ nextSerial' = nextSerial
          /\ Len(obs'.notes) = 1
          /\ ~isExecuting'
          /\ obs'.op = "undo"
               => /\ Len(undoStack') = Len(undoStack) - 1
                  /\ Len(redoStack') = Len(redoStack) + 1
                  /\ Last(redoStack').serial = Last(undoStack).serial
          /\ obs'.op = "redo"
               => /\ Len(redoStack') = Len(redoStack) - 1
                  /\ Len(undoStack') = Len(undoStack) + 1
                  /\ Last(undoStack').serial = Last(redoStack).serial]_vars

\* C4 witness: undo() ran a command whose re-import the store reported
C4_Witness == obs.op = "undo" /\ obs.ret /\ obs.dropped > 0 /\ redoStack # <<>>

\* number of store entries descending from logical feature l
CountOf(l) == Cardinality({i \in DOMAIN store : store[i].lid = l})

\* the store holds feature f, with its geometry
Holds(f) == \E i \in DOMAIN store : store[i].lid = f.lid /\ store[i].geom = f.geom

\* the store holds feature f once, with its geometry
HoldsOnce(f) == CountOf(f.lid) = 1 /\ Holds(f)

\* C5: right after a union is undone the store holds each original once,
\* with its geometry, and not the merged feature; right after it is redone
\* the store holds no original and the merged feature once.
C5_UnionUndoRedo ==
  /\ (obs.op = "undo" /\ obs.ret /\ phase.u = 1 /\ Last(redoStack).desc = "Union")
       => \A k \in DOMAIN Last(redoStack).subs :
            IF Last(redoStack).subs[k].type = "delete"
              THEN HoldsOnce(Last(redoStack).subs[k].feature)
              ELSE CountOf(Last(redoStack).subs[k].feature.lid) = 0
  /\ (obs.op = "redo" /\ obs.ret /\ phase.r = 1 /\ phase.u = 1
        /\ Last(undoStack).desc = "Union")
       => \A k \in DOMAIN Last(undoStack).subs :
            IF Last(undoStack).subs[k].type = "delete"
              THEN CountOf(Last(undoStack).subs[k].feature.lid) = 0
              ELSE HoldsOnce(Last(undoStack).subs[k].feature)

CompositeOps == {"union", "difference", "split", "simplify"}

\* C6: a successful union, difference, split or simplify makes one command
\* object, a composite, which is the only entry the undo stack gains.
C6_OneCompositeEntry ==
  [][(obs'.op \in CompositeOps /\ obs'.ret)
       => /\ obs'.recorded = 1
          /\ Len(undoStack') = Min(Len(undoStack) + 1, maxSize)
          /\ Last(undoStack').type = "composite"
          /\ Last(undoStack').serial = nextSerial
          /\ Front(undoStack') = Suffix(undoStack, Len(undoStack') - 1)]_vars

\* C6 witness: a union of two features whose two removals and one import the
\* store reported
C6_Witness ==
  /\ obs.op = "union" /\ obs.ret /\ obs.dropped >= 3
  /\ Last(undoStack).desc = "Union"

C8_EmptyIsNoOp ==
  [][(\/ obs'.op = "undo" /\ (~historyEnabled \/ undoStack = <<>>)
      \/ obs'.op = "redo" /\ (~historyEnabled \/ redoStack = <<>>))
       => /\ ~obs'.ret
          /\ obs'.calls = <<>>
          /\ obs'.notes = <<>>
          /\ UNCHANGED <<store, undoStack, redoStack, lastNotified>>]_vars

\* C8 witness: undo() found its stack empty while the redo stack was not
C8_Witness ==
  /\ obs.op = "undo" /\ ~obs.ret /\ historyEnabled
  /\ undoStack = <<>> /\ redoStack # <<>>

CompositeCalls(s, order, op) ==
  <<<<s, 0, op>>>> \o [i \in DOMAIN order |-> <<s, order[i], op>>]

\* C10: undo() of a composite calls undo() of every sub-command once, last
\* to first; execute() of a composite calls execute() of every sub-command
\* once, first to last.
C10_CompositeOrder ==
  [][/\ (obs'.op = "undo" /\ obs'.ret /\ Last(undoStack).type = "composite")
          => obs'.calls = CompositeCalls(Last(undoStack).serial,
                                         ReverseOrder(Len(Last(undoStack).subs)), "undo")
     /\ (obs'.op = "redo" /\ obs'.ret /\ Last(redoStack).type = "composite")
          => obs'.calls = CompositeCalls(Last(redoStack).serial,
                                         ForwardOrder(Len(Last(redoStack).subs)), "execute")]_vars

\* C10 witness: a composite was undone whose create sub-command found no
\* feature under its id (the created feature is still there) and whose delete
\* sub-commands, run after it, brought their features back
C10_Witness ==
  /\ obs.op = "undo" /\ obs.ret /\ redoStack # <<>>
  /\ Last(redoStack).type = "composite"
  /\ Len(obs.calls) = Len(Last(redoStack).subs) + 1
  /\ \E k \in DOMAIN Last(redoStack).subs :
       /\ Last(redoStack).subs[k].type = "create"
       /\ Holds(Last(redoStack).subs[k].feature)
  /\ \E k \in DOMAIN Last(redoStack).subs :
       /\ Last(redoStack).subs[k].type = "delete"
       /\ Holds(Last(redoStack).subs[k].feature)

\* C11: no two entries of the selection list have the same id, whatever
\* selectFeatures, addToSelection, removeFromSelection, the shift-click
\* toggle, the lasso, enableScaleMode and the scale drag did, also when two
\* features of the store have the same geometry or a feature is passed twice.
C11_SelectionIdsDistinct ==
  \A i, j \in DOMAIN state.selectedFeatures :
    i # j => state.selectedFeatures[i].id # state.selectedFeatures[j].id

\* the modes of the editor that take the pointer: select mode, a pending
\* operation, the lasso, the split line, freehand drawing, a scale drag, a
\* multi-drag
PointerModes ==
  <<isSelectMode,
    pendingOperation # NoMode,
    lassoFeature.attached \/ lassoFeature.isDrawing,
    splitFeature.attached \/ splitFeature.isDrawing,
    freehandFeature.attached \/ freehandFeature.isDrawing,
    isScaling,
    isMultiDragging>>

\* C12: at most one mode is active: activeDrawMode and activeEditMode are
\* never both set, and select mode, a pending operation, an active lasso, an
\* active split, freehand drawing, scaling and multi-dragging exclude each
\* other two by two.
C12_OneModeActive ==
  /\ ~(state.activeDrawMode # NoMode /\ state.activeEditMode # NoMode)
  /\ \A i, j \in DOMAIN PointerModes : i # j => ~(PointerModes[i] /\ PointerModes[j])

\* C12 witness: a multi-drag of two features is under way, after select mode
\* or the lasso selected them and drag mode replaced it
C12_Witness ==
  /\ isMultiDragging /\ state.activeEditMode = "drag"
  /\ Len(multiDragOriginalFeatures) = 2
  /\ obs.op = "multiDragMouseMove"

\* the selection entry a click on store entry hit makes
Clicked(hit) ==
  [id |-> store[hit].sid, feature |-> getGeomanFeature(store[hit]),
   geomanData |-> store[hit].sid]

\* the selection list has an entry of this id
IsSelected(id) ==
  \E k \in DOMAIN state.selectedFeatures : state.selectedFeatures[k].id = id

\* C13: while a union or difference is pending, a click on a polygon appends
\* it to the selection when no entry has its id and otherwise changes
\* nothing, so no entry is removed or replaced; a click on a feature that is
\* no polygon, or on nothing, leaves the selection as it is and hands nothing
\* to onSelectionChange.
C13_PendingClickAccumulates ==
  [][\A hit \in 0..Len(store), shiftKey \in BOOLEAN :
       (pendingOperation # NoMode /\ Click(hit, shiftKey))
         => IF hit # 0 /\ isPolygon(getGeomanFeature(store[hit])) /\ ~IsSelected(store[hit].sid)
              THEN state'.selectedFeatures = Append(state.selectedFeatures, Clicked(hit))
              ELSE /\ state'.selectedFeatures = state.selectedFeatures
                   /\ (hit = 0 \/ ~isPolygon(getGeomanFeature(store[hit]))) => notified' = <<>>]_vars

\* C13 witness: with an operation pending and a point feature in the store,
\* a click has just appended a second polygon to the selection
C13_Witness ==
  /\ pendingOperation # NoMode /\ obs.op = "click"
  /\ Len(state.selectedFeatures) = 2
  /\ notified = <<getSelectedFeatures(Modes)>>
  /\ \E i \in DOMAIN store : ~isPolygon(getGeomanFeature(store[i]))

\* C14 as claimed: while a union or difference is pending, the click that
\* brings the number of selected polygons to two executes the operation, so
\* that none is pending after it.
C14_SecondPolygonExecutes ==
  [][\A hit \in DOMAIN store, shiftKey \in BOOLEAN :
       (/\ pendingOperation # NoMode
        /\ Len(getPolygonFeatures(getSelectedFeatures(Modes))) = 1
        /\ isPolygon(getGeomanFeature(store[hit]))
        /\ ~IsSelected(store[hit].sid)
        /\ Click(hit, shiftKey))
         => pendingOperation' = NoMode]_vars

\* C14: while a union or difference is pending, a click executes nothing,
\* however many polygons it brings the selection to: the operation stays
\* pending, the store and the undo stack stay as they are and nothing is
\* recorded.
C14_ClickKeepsPending ==
  [][(pendingOperation # NoMode /\ obs'.op = "click")
       => /\ pendingOperation' = pendingOperation
          /\ store' = store
          /\ undoStack' = undoStack
          /\ obs'.recorded = 0]_vars

\* C14 witness: a click has brought the selection to two polygons and the
\* union is still pending
C14_Witness ==
  /\ pendingOperation = "union" /\ obs.op = "click"
  /\ Len(getPolygonFeatures(getSelectedFeatures(Modes))) = 2
  /\ notified # <<>>

\* C15: cancelling a pending union or difference, by cancelPendingOperation()
\* or by Escape, empties the selection and leaves the editor idle: no
\* operation pending, no active edit mode, isEditing false.
C15_CancelReturnsToIdle ==
  [][(pendingOperation # NoMode /\ obs'.op \in {"cancelPendingOperation", "escape"})
       => /\ state'.selectedFeatures = <<>>
          /\ pendingOperation' = NoMode
          /\ state'.activeEditMode = NoMode
          /\ ~state'.isEditing]_vars

\* the geometry operations as handlers: enableEditMode of union, difference
\* and simplify, the confirmation of a pending operation, the double click
\* that ends a split line
OperationHandlers ==
  {"union", "difference", "simplify", "executePendingOperation", "splitDblClick"}

\* C16: when a union, difference, split or simplify fails or cannot be
\* attempted (split mode is asked for without a polygon to split), the selection list is what it was, no feature of the store is
\* deleted, created or changed, and nothing is recorded in the history.
C16_FailedOperationChangesNothing ==
  [][(\/ obs'.op \in OperationHandlers /\ ~obs'.ret
      \/ obs'.op = "split" /\ ~splitFeature'.attached)
       => /\ state'.selectedFeatures = state.selectedFeatures
          /\ store' = store
          /\ undoStack' = undoStack /\ redoStack' = redoStack
          /\ obs'.recorded = 0
          /\ notified' = <<>>]_vars

\* C16 witness: the confirmed union of two selected polygons has failed, the
\* two are still selected and the history still holds their creation
C16_Witness ==
  /\ obs.op = "executePendingOperation" /\ ~obs.ret
  /\ Len(getPolygonFeatures(getSelectedFeatures(Modes))) = 2
  /\ Len(undoStack) = 2

\* C17: a failed precondition leaves the editor in the mode it was in:
\* confirming a pending union or difference with fewer than two polygons
\* selected leaves it pending, and a split line that fails to split the target
\* leaves the split active.
C17_FailureKeepsMode ==
  [][/\ (/\ obs'.op = "executePendingOperation"
         /\ pendingOperation # NoMode
         /\ Len(getPolygonFeatures(getSelectedFeatures(Modes))) < 2)
          => pendingOperation' = pendingOperation
     /\ (obs'.op = "splitDblClick" /\ ~obs'.ret /\ splitFeature.isDrawing)
          => splitFeature'.attached /\ splitFeature'.isDrawing]_vars

\* C18: the pointer-up that completes a scale gesture records one
\* EditFeatureCommand, which holds the feature as it was before the gesture
\* and as the gesture left it and is the one a single undo() reverts.
C18_ScaleRecordsOneEdit ==
  [][(/\ obs'.op = "scaleMouseUp"
      /\ scaleFeature.activeFeature # NoFeature
      /\ scaleFeature.activeFeature # scaleStartFeature)
       => /\ obs'.recorded = 1
          /\ undoStack' # <<>>
          /\ Last(undoStack').type = "edit"
          /\ Last(undoStack').oldFeature = scaleStartFeature
          /\ Last(undoStack').feature = scaleFeature.activeFeature]_vars

\* what cancels a gesture: Escape, disableAllModes(), a switch of mode
CancelHandlers ==
  {"escape", "disableAllModes", "enableDrawMode", "enableSelectMode"} \cup EditModes

\* C19: cancelling while a gesture is in flight (a scale drag, a multi-drag,
\* a split line, a lasso stroke) commits nothing: the store is what it was
\* before the gesture and no history entry was added.
C19_CancelCommitsNothing ==
  [][(gesture.active /\ obs'.op \in CancelHandlers)
       => /\ store' = gesture.store
          /\ undoStack' = gesture.undoStack]_vars

\* C20: a cancel with nothing in flight is a no-op: cancelPendingOperation()
\* with no operation pending, and the cancelScale(), cancelSplit() and lasso
\* disable() of disableAllModes() with no mode active, leave the selection,
\* the mode fields, the store and the history as they are and hand nothing to
\* onSelectionChange.
C20_CancelFromIdleIsNoOp ==
  [][(\/ pendingOperation = NoMode /\ obs'.op = "cancelPendingOperation"
      \/ /\ obs'.op = "disableAllModes"
         /\ state.activeDrawMode = NoMode /\ state.activeEditMode = NoMode
         /\ \A i \in DOMAIN PointerModes : ~PointerModes[i])
       => /\ Modes' = Modes
          /\ store' = store
          /\ undoStack' = undoStack /\ redoStack' = redoStack
          /\ notified' = <<>>]_vars

\* ---- features without id --------------------------------------------------
\* The user draws a shape on a store whose GeoJSON carries no id (no
\* feature.id, no __gm_id, no properties.id): getGeomanIdFromFeature gives
\* null for it.
DrawWithoutId(g) ==
  /\ Idle
  /\ Room(1)
  /\ Len(store) < MaxFeatures
  /\ Commit(Listened(Drawn([sid |-> nextId, gid |-> 0, geom |-> g, lid |-> nextId])),
            "draw")
  /\ UNCHANGED <<pendingEditFeature, editing>>

\* the forEach of deleteSelectedFeatures from the k-th selection entry on
RECURSIVE DeleteSelectedEach(_, _, _)
DeleteSelectedEach(w, selected, k) ==
  IF k > Len(selected) THEN w
  ELSE DeleteSelectedEach(
         deleteGeomanFeatureData(w,
           IF selected[k].geomanData # 0 THEN [NoEntry EXCEPT !.sid = selected[k].geomanData]
           ELSE findGeomanDataForFeature(w.store, selected[k].feature),
           selected[k].id),
         selected, k + 1)

\* GeoEditor.deleteSelectedFeatures: the entries of the selection are deleted
\* from the store, then clearSelection()
deleteSelectedFeatures(x) ==
  IF x.m.state.selectedFeatures = <<>> THEN x
  ELSE [x EXCEPT !.w = DeleteSelectedEach(@, x.m.state.selectedFeatures, 1),
                 !.m = clearSelection(@)]

\* the store events of the handler run x reach the global events listener
Heard(x) ==
  [x EXCEPT !.h = GlobalEventsListener(@, isPerformingCompositeOperation, x.w.events)]

\* the Delete or Backspace key
KeyDelete ==
  /\ Idle
  /\ Room(0)
  /\ Settled(Heard(deleteSelectedFeatures(Running)), "delete")

\* Drag: up to MaxFeatures features with and without id are drawn and
\* selected, and dragged together in drag mode, while the selection is
\* cleared or deleted from the keyboard
InitDrag == Init /\ ~historyEnabled /\ policy = "keep"

NextDrag ==
  \/ ~InFlight(Modes) /\ nextId <= MaxFeatures /\ \E g \in Geoms : Draw(g)
  \/ ~InFlight(Modes) /\ nextId <= MaxFeatures /\ \E g \in Geoms : DrawWithoutId(g)
  \/ \E hit \in 0..Len(store), shiftKey \in BOOLEAN : Click(hit, shiftKey)
  \/ EnableEditMode("drag", NoResult)
  \/ EnableSelectMode
  \/ ClearSelection
  \/ KeyDelete
  \/ \E hit \in DOMAIN store : MultiDragMouseDown(hit)
  \/ MultiDragMouseMove
  \/ MultiDragMouseUp

SpecDrag == InitDrag /\ [][NextDrag]_vars

\* ---- strokes point by point ---------------------------------------------------
\* LassoFeature and FreehandFeature with the points of the stroke kept one by
\* one, and with the timers completeLasso / completeFreehand start.  The
\* record of a tool: attached (the listeners are on the map), isDrawing,
\* points (this.points), timers (timeouts started and not yet fired), and the
\* history fields pressed (the points of the pointer events since the last
\* pointer-down), built (this.points as the last pointer-up found it) and
\* done (a pointer-up has completed a stroke).
MaxTimers == 2

Positions == 1..MaxPoints

Tools == {"lasso", "freehand"}

Tool(tool) == IF tool = "lasso" THEN lassoFeature ELSE freehandFeature

\* the tool's record becomes f: nothing else changes
ToolBecomes(tool, f) ==
  /\ lassoFeature' = IF tool = "lasso" THEN f ELSE lassoFeature
  /\ freehandFeature' = IF tool = "freehand" THEN f ELSE freehandFeature
  /\ UNCHANGED <<store, nextId, policy, updateMode, historyEnabled, undoStack, redoStack,
                 isExecuting, isPerformingCompositeOperation, pendingEditFeature, editing,
                 nextSerial, lastNotified, obs, phase, state, isSelectMode,
                 pendingOperation, isScaling, scaleTargetFeature, scaleTargetGeomanData,
                 scaleStartFeature, isMultiDragging, multiDragOriginalFeatures,
                 multiDragGeomanData, scaleFeature, splitFeature, map,
                 scaleDragPanEnabled, multiDragPanEnabled, notified, modeNotified, call,
                 seen, gesture>>

\* enable(onComplete) on a tool that was never enabled
StrokeEnable(tool) ==
  /\ lassoFeature = IdleModes.lassoFeature
  /\ freehandFeature = IdleModes.freehandFeature
  /\ ToolBecomes(tool, [attached |-> TRUE, isDrawing |-> FALSE, points |-> <<>>,
                        timers |-> 0, pressed |-> <<>>, built |-> <<>>, done |-> FALSE])

\* the tool whose listeners are on the map
Attached(tool) == Tool(tool) # IdleModes.lassoFeature /\ Tool(tool).attached

\* handleMouseDown: this.points = [p]
StrokeMouseDown(tool, p) ==
  /\ Attached(tool)
  /\ ToolBecomes(tool, [Tool(tool) EXCEPT !.isDrawing = TRUE, !.points = <<p>>,
                                          !.pressed = <<p>>, !.done = FALSE])

\* handleMouseMove: this.points.push(p)
StrokeMouseMove(tool, p) ==
  /\ Attached(tool)
  /\ Tool(tool).isDrawing
  /\ Len(Tool(tool).pressed) < MaxPoints
  /\ ToolBecomes(tool, [Tool(tool) EXCEPT !.points = Append(@, p),
                                          !.pressed = Append(@, p)])

\* handleMouseUp, completeLasso / completeFreehand: the polygon or feature is
\* built from this.points, and the timeout is started
StrokeMouseUp(tool) ==
  /\ Attached(tool)
  /\ Tool(tool).isDrawing
  /\ Tool(tool).timers < MaxTimers
  /\ ToolBecomes(tool, [Tool(tool) EXCEPT !.isDrawing = FALSE, !.built = Tool(tool).points,
                                          !.done = TRUE, !.timers = @ + 1])

\* 100 ms have passed since a pointer-up: this.points = []
StrokeTimeout(tool) ==
  /\ Attached(tool)
  /\ Tool(tool).timers > 0
  /\ ToolBecomes(tool, [Tool(tool) EXCEPT !.points = <<>>, !.timers = @ - 1])

\* Strokes: one of the two tools is enabled, and strokes are drawn with it
\* while the timeouts of earlier strokes fire
NextStrokes ==
  \/ \E tool \in Tools : StrokeEnable(tool)
  \/ \E tool \in Tools, p \in Positions : StrokeMouseDown(tool, p)
  \/ \E tool \in Tools, p \in Positions : StrokeMouseMove(tool, p)
  \/ \E tool \in Tools : StrokeMouseUp(tool)
  \/ \E tool \in Tools : StrokeTimeout(tool)

SpecStrokes == Init /\ [][NextStrokes]_vars

\* ---- commands called directly -----------------------------------------------
\* Commands are exported classes: a caller can build one on a feature and
\* call its methods itself.  call holds the command and the last method
\* called on it, times how often that method was called in a row.
MaxTimes == 2

\* the commands a caller builds on the feature f of the store: a create and
\* a delete command, and edit commands from and to another geometry
CommandsOn(f) ==
  {CreateFeatureCommand(f, 0, <<>>), DeleteFeatureCommand(f, 0, <<>>)}
    \cup {EditFeatureCommand(f, [f EXCEPT !.geom = g], 0, <<>>) : g \in Geoms \ {f.geom}}
    \cup {EditFeatureCommand([f EXCEPT !.geom = g], f, 0, <<>>) : g \in Geoms \ {f.geom}}

\* new XFeatureCommand(feature, context)
Construct(c) ==
  /\ call = IdleModes.call
  /\ call' = [op |-> "new", cmd |-> c, times |-> 0]
  /\ UNCHANGED <<store, nextId, policy, updateMode, historyEnabled, undoStack, redoStack,
                 isExecuting, isPerformingCompositeOperation, pendingEditFeature, editing,
                 nextSerial, lastNotified, obs, phase, state, isSelectMode,
                 pendingOperation, isScaling, scaleTargetFeature, scaleTargetGeomanData,
                 scaleStartFeature, isMultiDragging, multiDragOriginalFeatures,
                 multiDragGeomanData, scaleFeature, lassoFeature, splitFeature,
                 freehandFeature, map, scaleDragPanEnabled, multiDragPanEnabled,
                 notified, modeNotified, seen, gesture>>

\* command.execute() / command.undo() called by the holder of the command,
\* r being what the method leaves
Invoked(op, r) ==
  /\ r.w.nextId <= MaxId + 1
  /\ Len(r.w.store) <= MaxFeatures
  /\ store' = r.w.store
  /\ nextId' = r.w.nextId
  /\ call' = [op |-> op, cmd |-> r.cmd, times |-> IF call.op = op THEN call.times + 1 ELSE 1]
  /\ UNCHANGED <<policy, updateMode, historyEnabled, undoStack, redoStack,
                 isExecuting, isPerformingCompositeOperation, pendingEditFeature, editing,
                 nextSerial, lastNotified, obs, phase, state, isSelectMode,
                 pendingOperation, isScaling, scaleTargetFeature, scaleTargetGeomanData,
                 scaleStartFeature, isMultiDragging, multiDragOriginalFeatures,
                 multiDragGeomanData, scaleFeature, lassoFeature, splitFeature,
                 freehandFeature, map, scaleDragPanEnabled, multiDragPanEnabled,
                 notified, modeNotified, seen, gesture>>

Invoke(op) ==
  /\ call.op \in {"new", "execute", "undo"}
  /\ call.op = op => call.times < MaxTimes
  /\ Invoked(op, LeafRun(call.cmd, World(store, nextId), op))

\* Commands: an editor without history; features are drawn and removed,
\* then a caller builds a command and calls its methods
InitCommands == Init /\ ~historyEnabled

NextCommands ==
  \/ Ready /\ \E g \in Geoms : Draw(g)
  \/ Ready /\ \E i \in DOMAIN store : Remove(i)
  \/ \E i \in DOMAIN store : \E c \in CommandsOn(getGeomanFeature(store[i])) : Construct(c)
  \/ Invoke("execute")
  \/ Invoke("undo")

SpecCommands == InitCommands /\ [][NextCommands]_vars

\* ---- C21 ------------------------------------------------------------------
\* no scale drag or multi-drag is in flight and neither the lasso nor the
\* freehand handler is enabled
HooksReleased ==
  /\ ~isScaling
  /\ ~isMultiDragging
  /\ ~lassoFeature.attached
  /\ ~freehandFeature.attached

\* C21: whenever every gesture and mode that disables a map interaction hook
\* has ended or been left, drag-pan, box-zoom and double-click-zoom are in
\* the enabled state they had before it began (all three enabled, the state
\* the map starts in), whatever the sequence of events was.
C21_HooksRestored == HooksReleased => map = IdleModes.map

\* ---- C22 ------------------------------------------------------------------
\* C22: in a union, difference or split every selection-changed call comes
\* after the store mutation is complete: the store the observer finds is
\* the store the handler leaves (no mode-changed call is made by these
\* handlers at all).
C22_ObserversSeeFinalStore ==
  [][obs'.op \in OperationHandlers => \A i \in DOMAIN seen' : seen'[i] = store']_vars

\* ---- C23 ------------------------------------------------------------------
\* the active draw or edit mode (null for idle)
ActiveMode(st) == IF st.activeDrawMode # NoMode THEN st.activeDrawMode ELSE st.activeEditMode

\* C23: every handler that changes the active mode calls onModeChange, and
\* its last call carries the mode it leaves active (null for idle), so the
\* mode last notified is the active one whenever the editor is at rest.
C23_ModeChangeNotified ==
  [][ActiveMode(state') # ActiveMode(state)
       => modeNotified' # <<>>
          /\ modeNotified'[Len(modeNotified')] = ActiveMode(state')]_vars

\* ---- C24 ------------------------------------------------------------------
\* the operations of the feature classes that hand back a result record with
\* a success flag, and those that hand back features
ResultOperations == {"union", "difference", "split"}
FeatureOperations == {"simplify", "scale", "scaleFromHandle", "copy", "copyToLocation", "paste"}

FreshId(id, operands) ==
  /\ id = nextId - 1
  /\ \A k \in DOMAIN operands : operands[k].id # id

\* C25: union of no feature hands back success false and a null result; of
\* one feature, success true and a clone under a freshly generated id that
\* is not the input's id; of two or more, success true exactly when the
\* library's union is not null, the result carrying a freshly generated id.
C25_UnionByInputCount ==
  call.op = "union" =>
    /\ Len(call.features) = 0 => ~call.out.success /\ call.out.result = NoFeature
    /\ Len(call.features) = 1 =>
         /\ call.out.success
         /\ call.out.result = [call.features[1] EXCEPT !.id = call.out.result.id]
         /\ FreshId(call.out.result.id, call.features)
    /\ Len(call.features) >= 2 =>
         /\ call.out.success <=> Computes(call.lib)
         /\ call.out.success =>
              /\ call.out.result.geom = call.lib.geom
              /\ FreshId(call.out.result.id, call.features)

C25_Witness ==
  /\ call.op = "union"
  /\ Len(call.features) = 1
  /\ call.features[1].id = -1
  /\ call.out.success
  /\ call.out.result.id > 0

\* ---- C26 ------------------------------------------------------------------
\* the polygons turf.difference is to be handed: those up to the first one
\* on which it returns null or raises
Reached(libs) ==
  {k \in DOMAIN libs : \A j \in 1..(k - 1) : Computes(libs[j])}

\* C26: difference subtracts the list in order from a clone of base; once
\* the running result is null no further polygon is applied and the
\* operation hands back success true with a null result; success is false
\* only when the library raises; with an empty list it hands back success
\* true and a clone of base under a fresh id.
C26_DifferenceInOrder ==
  call.op = "difference" =>
    /\ call.out.applied = [k \in Reached(call.libs) |-> call.subtract[k]]
    /\ call.out.success <=> ~call.lib.raises
    /\ (\E k \in Reached(call.libs) : ~call.libs[k].raises /\ call.libs[k].geom = 0)
         => call.out.success /\ call.out.result = NoFeature
    /\ (call.subtract # <<>> /\ \A k \in DOMAIN call.libs : Computes(call.libs[k]))
         => /\ call.out.result.geom = call.libs[Len(call.libs)].geom
            /\ FreshId(call.out.result.id, <<call.base>> \o call.subtract)
    /\ call.subtract = <<>>
         => /\ call.out.success
            /\ call.out.result = [call.base EXCEPT !.id = call.out.result.id]
            /\ FreshId(call.out.result.id, <<call.base>>)

C26_Witness ==
  /\ call.op = "difference"
  /\ Len(call.subtract) = 2
  /\ ~call.libs[1].raises /\ call.libs[1].geom = 0
  /\ Computes(call.libs[2])
  /\ call.out.success
  /\ call.out.result = NoFeature
  /\ call.out.applied = <<call.subtract[1]>>

\* ---- C27 ------------------------------------------------------------------
\* the selected polygons, in selection order
SelectedPolygons == getPolygonFeatures(getSelectedFeatures(Modes))

\* the store holds the logical feature of f, with the geometry of f
Kept(st, f) == \E i \in DOMAIN st : st[i].lid = f.lid /\ st[i].geom = f.geom

\* C27: the editor's difference takes the first selected polygon as base
\* and the other selected polygons, in selection order, as the subtract
\* list; after a successful difference the base and every subtracted polygon
\* are gone from the store and the result, if there is one, is in it; the
\* selected features that are no polygons are still in the store.
C27_DifferenceOperands ==
  [][\A result \in OperationResults :
       ( /\ EnableEditMode("difference", result) \/ ExecutePendingOperation(result)
         /\ call'.op = "difference" )
       => /\ call'.base = Head(SelectedPolygons)
          /\ call'.subtract = Tail(SelectedPolygons)
          /\ obs'.ret <=> result.success
          /\ obs'.ret =>
               /\ \A k \in DOMAIN SelectedPolygons :
                    \A i \in DOMAIN store' : store'[i].lid # SelectedPolygons[k].lid
               /\ result.geom # 0 =>
                    \E i \in DOMAIN store' :
                      /\ store'[i].geom = result.geom
                      /\ \A j \in DOMAIN store : store[j].lid # store'[i].lid
               /\ result.geom = 0 =>
                    \A i \in DOMAIN store' : \E j \in DOMAIN store : store[j] = store'[i]
               /\ \A k \in DOMAIN state.selectedFeatures :
                    ~isPolygon(state.selectedFeatures[k].feature)
                      => Kept(store', state.selectedFeatures[k].feature)]_vars

\* ---- C28 ------------------------------------------------------------------
CopyOperations == {"copy", "copyToLocation", "paste"}

\* the copies handed back carry pairwise different ids, and none carries
\* the id of a feature that was copied
DistinctFromSources(copies, sources) ==
  /\ \A i, j \in DOMAIN copies : i # j => copies[i].id # copies[j].id
  /\ \A i \in DOMAIN copies : \A k \in DOMAIN sources : copies[i].id # sources[k].id

InBand(factor) ==
  /\ ~isNaN(factor)
  /\ ~Less(factor, scaleOptions.minScale)
  /\ ~Less(scaleOptions.maxScale, factor)

\* C29: for every factor asked of scale, and for every pair of a start and
\* a current drag distance given to scaleFromHandle, the start distance
\* zero included, the factor handed to the geometry transform lies in
\* [minScale, maxScale], and it is the requested factor when that one lies
\* in the band.
C29_FactorClamped ==
  ( \/ call.op = "scale" /\ ~isNaN(call.factor)
    \/ call.op = "scaleFromHandle" )
    => /\ InBand(call.out.factor)
       /\ InBand(call.factor) => call.out.factor = call.factor

\* ---- C30 ------------------------------------------------------------------
\* no entry of the store matches the id the command tracks
Unmatched(c, st) == MatchIds(st, c.featureId) = <<>>

\* the command on top of `from` has moved to the top of `to`
Moved(from, to, fromAfter, toAfter) ==
  /\ fromAfter = Front(from)
  /\ Front(toAfter) = to
  /\ Last(toAfter).serial = Last(from).serial

\* C30: when no store entry matches the id a command tracks,
\* CreateFeatureCommand.undo, DeleteFeatureCommand.execute and
\* EditFeatureCommand.execute and undo leave the store as it is and call no
\* delete callback, and HistoryManager.undo and redo still return true,
\* with the executing flag lowered and the command moved to the other stack.
C30_MissingFeatureIsNoOp ==
  [][/\ ( /\ obs'.op = "undo" /\ historyEnabled /\ undoStack # <<>>
          /\ Last(undoStack).type \in {"create", "edit"}
          /\ Unmatched(Last(undoStack), store) )
          => /\ store' = store
             /\ obs'.deleted = <<>>
             /\ obs'.ret
             /\ ~isExecuting'
             /\ obs'.calls = <<<<Last(undoStack).serial, 0, "undo">>>>
             /\ Moved(undoStack, redoStack, undoStack', redoStack')
     /\ ( /\ obs'.op = "redo" /\ historyEnabled /\ redoStack # <<>>
          /\ Last(redoStack).type \in {"delete", "edit"}
          /\ Unmatched(Last(redoStack), store) )
          => /\ store' = store
             /\ obs'.deleted = <<>>
             /\ obs'.ret
             /\ ~isExecuting'
             /\ obs'.calls = <<<<Last(redoStack).serial, 0, "execute">>>>
             /\ Moved(redoStack, undoStack, redoStack', undoStack')]_vars

\* CreateFeatureCommand.undo has run on a store that holds features, none
\* of them under the id the command tracks
C30_Witness ==
  /\ obs.op = "undo"
  /\ obs.ret
  /\ obs.deleted = <<>>
  /\ store # <<>>
  /\ Last(redoStack).type = "create"
  /\ Last(redoStack).featureId # 0

\* the same for DeleteFeatureCommand.execute and for EditFeatureCommand
C30_WitnessDelete ==
  /\ obs.op = "redo"
  /\ obs.ret
  /\ obs.deleted = <<>>
  /\ Last(undoStack).type = "delete"
  /\ Last(undoStack).featureId # 0

C30_WitnessEditUndo ==
  /\ obs.op = "undo"
  /\ obs.ret
  /\ Last(redoStack).type = "edit"
  /\ Unmatched(Last(redoStack), store)

C30_WitnessEditRedo ==
  /\ obs.op = "redo"
  /\ obs.ret
  /\ Last(undoStack).type = "edit"
  /\ Unmatched(Last(undoStack), store)

\* ---- C31 ------------------------------------------------------------------
\* the command c, having run with the target geometry geom, has re-imported
\* its feature: one entry of st matches the id it tracks, that entry has the
\* geometry geom and its storage id is the tracked id
Reimported(c, st, geom) ==
  /\ Len(MatchIds(st, c.featureId)) = 1
  /\ \A i \in DOMAIN st :
       Matches(st[i], c.featureId) => st[i].geom = geom /\ st[i].sid = c.featureId

\* C31: when the store entry matching an Edit command offers no direct
\* geometry update, execute and undo delete and re-import the feature:
\* afterwards one store entry belongs to the command, it has the target
\* geometry, and the command tracks the id the re-import assigned.
C31_FallbackReimports ==
  [][/\ ( /\ obs'.op = "undo" /\ historyEnabled /\ undoStack # <<>>
          /\ Last(undoStack).type = "edit"
          /\ ~Unmatched(Last(undoStack), store)
          /\ updateMode # "direct" )
          => Reimported(Last(redoStack'), store', Last(undoStack).oldFeature.geom)
     /\ ( /\ obs'.op = "redo" /\ historyEnabled /\ redoStack # <<>>
          /\ Last(redoStack).type = "edit"
          /\ ~Unmatched(Last(redoStack), store)
          /\ updateMode # "direct" )
          => Reimported(Last(undoStack'), store', Last(redoStack).feature.geom)]_vars

\* ---- C32 ------------------------------------------------------------------
\* C32: execute called twice in a row, or undo called twice in a row, on
\* the same Create, Delete or Edit command leaves the store with the
\* content it had after the first call: no second copy of the feature.
C32_RepeatedCallIdempotent ==
  [][\A op \in {"execute", "undo"} :
       (Invoke(op) /\ call.op = op) => Content(store') = Content(store)]_vars

\* ---- C33 ------------------------------------------------------------------
\* no transient gesture state is left in the mode fields m
GestureStateCleared(m) ==
  /\ ~m.isScaling /\ ~m.isMultiDragging
  /\ m.scaleTargetFeature = NoFeature /\ m.scaleTargetGeomanData = 0
  /\ m.scaleStartFeature = NoFeature
  /\ m.scaleFeature = IdleModes.scaleFeature
  /\ m.multiDragOriginalFeatures = <<>> /\ m.multiDragGeomanData = <<>>
  /\ m.pendingOperation = NoMode
  /\ ~m.lassoFeature.attached /\ ~m.lassoFeature.isDrawing /\ m.lassoFeature.points = 0
  /\ ~m.splitFeature.attached /\ ~m.splitFeature.isDrawing
  /\ m.splitFeature.splitLinePoints = 0 /\ m.splitFeature.targetFeature = NoFeature
  /\ ~m.freehandFeature.attached /\ ~m.freehandFeature.isDrawing
  /\ m.freehandFeature.points = 0

\* a pointer-move or pointer-up reaches the handlers of the gestures
PointerMoveOrUp ==
  \/ \E g \in AllGeoms : ScaleMouseMove(g)
  \/ ScaleMouseUp
  \/ MultiDragMouseMove
  \/ MultiDragMouseUp
  \/ LassoMouseMove
  \/ \E covered \in SUBSET AllGeoms : LassoMouseUp(covered)
  \/ FreehandMouseMove
  \/ \E g \in Geoms : FreehandMouseUp(g)

\* C33: after disableAllModes(), whatever was in flight, no transient
\* gesture state is left: isScaling and isMultiDragging are false, the scale
\* target and start and the multi-drag snapshot are empty, no operation is
\* pending, lasso, split and freehand are inactive without points; and the
\* pointer-move or pointer-up that comes next changes neither the store nor
\* the selection.
C33_DisableClearsGestures ==
  [][/\ obs'.op = "disableAllModes" => GestureStateCleared(Modes')
     /\ (obs.op = "disableAllModes" /\ PointerMoveOrUp)
          => /\ store' = store
             /\ state'.selectedFeatures = state.selectedFeatures]_vars

\* disableAllModes() has ended a gesture that was in flight, with features
\* selected
C33_Witness ==
  /\ obs.op = "disableAllModes"
  /\ gesture.cancelled
  /\ state.selectedFeatures # <<>>

\* ---- C34 ------------------------------------------------------------------
\* the store entry at position hit is one of the selected features
HitIsSelected(hit) ==
  \E k \in DOMAIN state.selectedFeatures :
    state.selectedFeatures[k].feature.lid = store[hit].lid

\* C34: a multi-drag starts only when the active edit mode is drag, two or
\* more features are selected and the pointer-down hits a selected feature;
\* a pointer-down on a feature that is not selected starts nothing and moves
\* no feature, also when features carry no id.
C34_DragStartsOnSelected ==
  [][/\ (~isMultiDragging /\ isMultiDragging')
          => state.activeEditMode = "drag" /\ Len(state.selectedFeatures) >= 2
     /\ \A hit \in DOMAIN store :
          (MultiDragMouseDown(hit) /\ ~HitIsSelected(hit))
            => ~isMultiDragging' /\ store' = store]_vars

\* ---- C35 ------------------------------------------------------------------
\* the scale target is a selected feature, and the store holds it
TargetSelectedAndStored ==
  /\ scaleTargetFeature # NoFeature
  /\ \E k \in DOMAIN state.selectedFeatures :
       state.selectedFeatures[k].feature.lid = scaleTargetFeature.lid
  /\ \E i \in DOMAIN store : store[i].lid = scaleTargetFeature.lid

\* C35: while a multi-drag is under way the active edit mode is drag and
\* two or more features are selected; while a scale drag is under way the
\* active edit mode is scale and the scale target is set, selected and in
\* the store; also when the selection is cleared or deleted between
\* pointer-down and pointer-up.
C35_GestureKeepsItsPreconditions ==
  /\ isMultiDragging
       => state.activeEditMode = "drag" /\ Len(state.selectedFeatures) >= 2
  /\ isScaling
       => state.activeEditMode = "scale" /\ TargetSelectedAndStored

\* C36: a split that reports success hands back two or more parts.
C36_SuccessfulSplitHasTwoParts ==
  (call.op = "split" /\ call.out.success) => Len(call.out.result) >= 2

\* C37: when the command raises during HistoryManager.undo() or redo(), the
\* executing flag is clear afterwards and the command is still on one of the
\* two stacks: the sizes of the stacks add up to what they did before.
C37_RaisingCommandIsKept ==
  [][(UndoRaises \/ RedoRaises)
       => /\ ~isExecuting'
          /\ Len(undoStack') + Len(redoStack') = Len(undoStack) + Len(redoStack)]_vars

\* C38: the points a stroke is finalized with are the point of its
\* pointer-down followed by the points of its pointer-moves, also when the
\* timeout of an earlier stroke fires while the stroke is drawn.
C38_StrokeKeepsItsPoints ==
  \A tool \in Tools :
    (Attached(tool) /\ Tool(tool).done) => Tool(tool).built = Tool(tool).pressed

\* the editor is idle: no active edit mode, no pending operation, nothing
\* selected
EditorIdle ==
  /\ state.activeEditMode = NoMode
  /\ ~state.isEditing
  /\ pendingOperation = NoMode
  /\ state.selectedFeatures = <<>>

\* C39: after a union or a difference that succeeded (its command was
\* recorded) the editor is idle, when enableEditMode ran the operation at
\* once as when executePendingOperation confirmed it.
C39_IdleAfterUnionOrDifference ==
  (obs.op \in {"union", "difference", "executePendingOperation"} /\ obs.recorded > 0)
    => EditorIdle

====
